---- MODULE Spec2Model ----
(***************************************************************************)
(* The ExpertMesh multi-agent pipeline (lib/agents, lib/fireworks,         *)
(* lib/voyage, lib/mongodb, lib/index-setup) as a state machine.           *)
(*                                                                         *)
(* Text is a sequence of one-character strings, so that trim, toLowerCase  *)
(* and split do what the JavaScript does.  Times are milliseconds.         *)
(* Weights are tenths (8 is 0.8); scores are exact fractions [n, d].       *)
(* A store primitive (findOne, insertOne, updateOne) is one atomic step    *)
(* that either takes effect or raises without effect.  uuidv4 and sha256   *)
(* are taken to be collision free.                                         *)
(***************************************************************************)
EXTENDS Integers, Sequences, FiniteSets, TLC

\* ------------------------------------------------------------------ bounds
\* concurrent processQuery invocations in one behaviour (Spec, SpecReuse)
MaxInv == 2
\* repeated requests for one query in one behaviour (SpecRepeat)
MaxRepeat == 3
\* clock ticks in one behaviour
MaxTicks == 2
\* clock ticks per hour: the clock advances by OneHourMs \div TicksPerHour
TicksPerHour == 2
\* exceptions raised by the store and the providers in one behaviour
MaxFaults == 1
\* the same, for the single invocation of SpecSolo
SoloFaults == 2
\* phrases in a query text submitted to the single invocation of SpecSolo
MaxWords == 3

\* ------------------------------------------------------------------- text
Upper == <<"A","B","C","D","E","F","G","H","I","J","K","L","M",
           "N","O","P","Q","R","S","T","U","V","W","X","Y","Z">>
Lower == <<"a","b","c","d","e","f","g","h","i","j","k","l","m",
           "n","o","p","q","r","s","t","u","v","w","x","y","z">>

IsSpace(c) == c \in {" ", "\t", "\n"}

LowerChar(c) ==
    IF \E k \in DOMAIN Upper : Upper[k] = c
    THEN Lower[CHOOSE k \in DOMAIN Upper : Upper[k] = c]
    ELSE c

UpperChar(c) ==
    IF \E k \in DOMAIN Lower : Lower[k] = c
    THEN Upper[CHOOSE k \in DOMAIN Lower : Lower[k] = c]
    ELSE c

toLowerCase(s) == [k \in 1..Len(s) |-> LowerChar(s[k])]

trim(s) ==
    LET keep == {k \in 1..Len(s) : ~IsSpace(s[k])}
    IN  IF keep = {} THEN <<>>
        ELSE SubSeq(s, CHOOSE k \in keep : \A m \in keep : k <= m,
                       CHOOSE k \in keep : \A m \in keep : m <= k)

\* String.prototype.split(/\s+/): the pieces between maximal runs of white
\* space; a leading or trailing run leaves an empty piece at that end
RECURSIVE SplitFrom(_, _, _)
SplitFrom(s, k, cur) ==
    IF k > Len(s) THEN <<cur>>
    ELSE IF IsSpace(s[k])
         THEN IF k > 1 /\ IsSpace(s[k-1])
              THEN SplitFrom(s, k + 1, cur)
              ELSE <<cur>> \o SplitFrom(s, k + 1, <<>>)
         ELSE SplitFrom(s, k + 1, Append(cur, s[k]))

split(s) == SplitFrom(s, 1, <<>>)

\* a slice that keeps every element
sliceAll(s, n) == s

slice(s, n) == IF Len(s) <= n THEN s ELSE SubSeq(s, 1, n)

\* crypto.createHash('sha256').update(t).digest('hex'), collision free
sha256(t) == <<"sha256", t>>

queryHashOf(rawQuery) == sha256(toLowerCase(trim(rawQuery)))

\* -------------------------------------------------------------- constants
OneHourMs == 60 * 60 * 1000
TickMs == OneHourMs \div TicksPerHour

\* ------------------------------------------------------------ parseQuery
StopWords == {
    <<"f","i","n","d">>, <<"n","e","e","d">>, <<"w","a","n","t">>,
    <<"l","o","o","k","i","n","g">>, <<"e","x","p","e","r","t">>,
    <<"d","e","v","e","l","o","p","e","r">>,
    <<"p","r","o","f","e","s","s","i","o","n","a","l">>,
    <<"p","r","o","f","e","s","s","i","o","n","a","l","s">> }

TechnicalHire == <<"t","e","c","h","n","i","c","a","l","_","h","i","r","e">>

\* weight 0.8 of a heuristic skill, in tenths
DefaultWeight == 8

capitalize(name) ==
    IF name = <<>> THEN name ELSE <<UpperChar(name[1])>> \o Tail(name)

defaultResult(rawQuery) ==
    LET long(w) == Len(w) > 3
        notStop(w) == w \notin StopWords
        words == slice(SelectSeq(SelectSeq(split(toLowerCase(rawQuery)), long),
                                 notStop), 3)
    IN  [ skills      |-> [k \in 1..Len(words) |->
                             [name |-> capitalize(words[k]), weight |-> DefaultWeight]],
          constraints |-> <<>>,
          intent      |-> [t |-> "string", s |-> TechnicalHire],
          summary     |-> [t |-> "string", s |-> rawQuery] ]

\* A JSON value is a record with a tag t; an object carries the four
\* properties parseQuery reads, each a JSON value ("undefined" when missing).
Undefined == [t |-> "undefined"]
JsonNull == [t |-> "null"]
JsonArray(items) == [t |-> "array", items |-> items]
JsonString(s) == [t |-> "string", s |-> s]
JsonObject(skills, constraints, intent, summary) ==
    [t |-> "object", skills |-> skills, constraints |-> constraints,
     intent |-> intent, summary |-> summary]

\* parsed?.p
OptProp(v, p) == IF v.t = "object" THEN v[p] ELSE Undefined
isArray(v) == v.t = "array"
Truthy(v) == v.t \in {"array", "object"} \/ (v.t = "string" /\ v.s # <<>>)

\* The outcome of chat(): it throws (no FIREWORKS_API_KEY, or a response that
\* is not ok), or returns a text, which JSON.parse accepts or rejects.
ChatThrows == [ok |-> FALSE]
ChatInvalid == [ok |-> TRUE, json |-> FALSE]
ChatJson(v) == [ok |-> TRUE, json |-> TRUE, value |-> v]

parseQuery(rawQuery, chat) ==
    IF ~chat.ok THEN defaultResult(rawQuery)
    ELSE IF ~chat.json THEN defaultResult(rawQuery)
    ELSE LET parsed == chat.value
             skills == OptProp(parsed, "skills")
             cons == OptProp(parsed, "constraints")
             intent == OptProp(parsed, "intent")
             summary == OptProp(parsed, "summary")
         IN  [ skills      |-> IF isArray(skills) THEN skills.items
                               ELSE defaultResult(rawQuery).skills,
               constraints |-> IF isArray(cons) THEN cons.items ELSE <<>>,
               intent      |-> IF Truthy(intent) THEN intent
                               ELSE JsonString(TechnicalHire),
               summary     |-> IF Truthy(summary) THEN summary
                               ELSE JsonString(rawQuery) ]

\* -------------------------------------------------------------- fractions
RECURSIVE GCD(_, _)
GCD(a, b) == IF b = 0 THEN a ELSE GCD(b, a % b)
Abs(a) == IF a < 0 THEN -a ELSE a

\* the fraction n/d (d # 0) in lowest terms with a positive denominator
Frac(n, d) ==
    LET g == GCD(Abs(n), Abs(d))
        sg == IF d < 0 THEN -1 ELSE 1
    IN  [n |-> sg * (n \div g), d |-> sg * (d \div g)]

FAdd(x, y) == Frac(x.n * y.d + y.n * x.d, x.d * y.d)
FMul(x, y) == Frac(x.n * y.n, x.d * y.d)
FLess(x, y) == x.n * y.d < y.n * x.d
FMin(x, y) == IF FLess(y, x) THEN y ELSE x
Tenths(k) == Frac(k, 10)

\* --------------------------------------------------------------- experts
Renown == <<"r","e","n","o","w","n">>
Popular == <<"p","o","p","u","l","a","r">>
Hidden == <<"h","i","d","d","e","n">>
Rust == <<"R","u","s","t">>
Golang == <<"G","o","l","a","n","g">>

\* The experts collection in its natural order.  renownLevel "none" is a
\* profile without the optional field; hasVector: the profile has a skillVector.
Experts == <<
    [ _id |-> 1, name |-> <<"A","n","n">>, title |-> <<"C","T","O">>,
      bio |-> <<"r","u","s","t","a","c","e","a","n">>,
      skills |-> << [name |-> Rust], [name |-> Golang] >>,
      hasLinks |-> TRUE, availability |-> "busy",
      renownLevel |-> "famous", hasVector |-> TRUE ],
    [ _id |-> 2, name |-> <<"B","o","b">>, title |-> <<"d","e","v">>,
      bio |-> <<>>,
      skills |-> << [name |-> Rust] >>,
      hasLinks |-> FALSE, availability |-> "available",
      renownLevel |-> "none", hasVector |-> TRUE ] >>

\* ------------------------------------------------------ RecommenderAgent
RenownConstraint(requirements) ==
    SelectSeq(requirements.constraints, LAMBDA c : c.type = Renown)

calculateSkillMatch(expert, requirements) ==
    IF Len(requirements.skills) = 0 THEN Frac(1, 2)
    ELSE LET expertSkills == {toLowerCase(expert.skills[k].name) :
                                 k \in DOMAIN expert.skills}
             RECURSIVE Sum(_, _)
             Sum(k, onlyMatched) ==
                 IF k = 0 THEN 0
                 ELSE Sum(k - 1, onlyMatched) +
                      (IF onlyMatched /\
                          toLowerCase(requirements.skills[k].name) \notin expertSkills
                       THEN 0 ELSE requirements.skills[k].weight)
             totalWeight == Sum(Len(requirements.skills), FALSE)
             matchedWeight == Sum(Len(requirements.skills), TRUE)
         IN  IF totalWeight > 0 THEN Frac(matchedWeight, totalWeight)
             ELSE Frac(1, 2)

\* a renown match that takes a profile without renownLevel as it is
strictRenownMatch(expert, requirements) ==
    LET found == RenownConstraint(requirements)
    IN  IF found = <<>> THEN Tenths(5)
        ELSE LET requested == toLowerCase(found[1].value)
                 actual == expert.renownLevel
             IN  IF requested = Popular
                 THEN CASE actual = "famous" -> Tenths(10)
                        [] actual = "established" -> Tenths(8)
                        [] actual = "rising" -> Tenths(4)
                        [] OTHER -> Tenths(1)
                 ELSE IF requested = Hidden
                 THEN CASE actual = "hidden" -> Tenths(10)
                        [] actual = "rising" -> Tenths(7)
                        [] OTHER -> Tenths(2)
                 ELSE Tenths(5)

calculateRenownMatch(expert, requirements) ==
    LET found == RenownConstraint(requirements)
    IN  IF found = <<>> THEN Tenths(5)
        ELSE LET requested == toLowerCase(found[1].value)
                 actual == IF expert.renownLevel = "none" THEN "hidden"
                           ELSE expert.renownLevel
             IN  IF requested = Popular
                 THEN CASE actual = "famous" -> Tenths(10)
                        [] actual = "established" -> Tenths(8)
                        [] actual = "rising" -> Tenths(4)
                        [] OTHER -> Tenths(1)
                 ELSE IF requested = Hidden
                 THEN CASE actual = "hidden" -> Tenths(10)
                        [] actual = "rising" -> Tenths(7)
                        [] OTHER -> Tenths(2)
                 ELSE Tenths(5)

\* a score without the availability bonus
matchScoreNoBonus(expert, requirements) ==
    LET skillMatch == calculateSkillMatch(expert, requirements)
        renownMatch == calculateRenownMatch(expert, requirements)
    IN  FMin(Frac(1, 1),
             FAdd(FMul(skillMatch, Tenths(7)), FMul(renownMatch, Tenths(3))))

matchScoreOf(expert, requirements) ==
    LET skillMatch == calculateSkillMatch(expert, requirements)
        renownMatch == calculateRenownMatch(expert, requirements)
        availabilityBonus == IF expert.availability = "available"
                             THEN Tenths(1) ELSE Tenths(0)
    IN  FMin(Frac(1, 1),
             FAdd(FAdd(FMul(skillMatch, Tenths(7)), FMul(renownMatch, Tenths(3))),
                  availabilityBonus))

\* Array.prototype.sort((a, b) => b.matchScore - a.matchScore): stable
RECURSIVE InsertSorted(_, _)
InsertSorted(sorted, m) ==
    IF sorted = <<>> THEN <<m>>
    ELSE IF FLess(Head(sorted).matchScore, m.matchScore)
         THEN <<m>> \o sorted
         ELSE <<Head(sorted)>> \o InsertSorted(Tail(sorted), m)

\* a sort that puts a result before the results of equal score
RECURSIVE InsertFirst(_, _)
InsertFirst(sorted, m) ==
    IF sorted = <<>> THEN <<m>>
    ELSE IF FLess(m.matchScore, Head(sorted).matchScore)
         THEN <<Head(sorted)>> \o InsertFirst(Tail(sorted), m)
         ELSE <<m>> \o sorted

RECURSIVE sortTiesReversed(_)
sortTiesReversed(ms) ==
    IF ms = <<>> THEN <<>>
    ELSE InsertFirst(sortTiesReversed(SubSeq(ms, 1, Len(ms) - 1)), ms[Len(ms)])

RECURSIVE sortByScore(_)
sortByScore(ms) ==
    IF ms = <<>> THEN <<>>
    ELSE InsertSorted(sortByScore(SubSeq(ms, 1, Len(ms) - 1)), ms[Len(ms)])

\* generateExplanation: the provider's text, given as its lines, without
\* the lines that are blank
explanationLines(text) == SelectSeq(text, LAMBDA line : Len(trim(line)) > 0)

rankMatches(candidates, requirements, text) ==
    LET top == slice(candidates, 5)
    IN  sortByScore([k \in 1..Len(top) |->
            [ expert     |-> top[k],
              matchScore |-> matchScoreOf(top[k], requirements),
              reasoning  |-> explanationLines(text),
              matchedBy  |-> "recommender" ]])

\* --------------------------------------------------------- VerifierAgent
\* a verifier that hands on only the candidates whose availability it confirms
verifyAvailable(candidates) ==
    SelectSeq([k \in 1..Len(candidates) |->
                  ( "verified" :> TRUE @@
                    "verificationDetails" :>
                        [ profileComplete |-> candidates[k].bio # <<>> /\
                                              Len(candidates[k].skills) > 0,
                          hasExternalLinks |-> candidates[k].hasLinks,
                          availabilityConfirmed |-> TRUE ] )
                  @@ candidates[k] ],
              LAMBDA e : e.availability = "available")

verify(candidates) ==
    [k \in 1..Len(candidates) |->
        ( "verified" :> TRUE @@
          "verificationDetails" :>
              [ profileComplete |-> candidates[k].bio # <<>> /\
                                    Len(candidates[k].skills) > 0,
                hasExternalLinks |-> candidates[k].hasLinks,
                availabilityConfirmed |-> candidates[k].availability = "available" ] )
        @@ candidates[k] ]

\* ----------------------------------------------------- ProfileScoutAgent
RenownFilter(requirements) ==
    LET found == RenownConstraint(requirements)
    IN  IF found = <<>> THEN {"famous", "established", "rising", "hidden", "none"}
        ELSE IF toLowerCase(found[1].value) = Popular THEN {"famous", "established"}
        ELSE IF toLowerCase(found[1].value) = Hidden THEN {"hidden", "rising"}
        ELSE {"famous", "established", "rising", "hidden", "none"}

renownFilterApplies(requirements) ==
    /\ RenownConstraint(requirements) # <<>>
    /\ toLowerCase(RenownConstraint(requirements)[1].value) \in {Popular, Hidden}

\* the pipeline's output for a similarity ranking of the profiles
vectorSearch(ranking, requirements) ==
    slice(SelectSeq(ranking,
                    LAMBDA e : e.renownLevel \in RenownFilter(requirements)), 10)

\* new RegExp(pattern, 'i') for patterns of literal characters and the
\* quantifier +: the constructor throws SyntaxError ("Nothing to repeat") when
\* a + has nothing before it or follows another +
regexValid(pattern) ==
    \A k \in DOMAIN pattern :
        pattern[k] = "+" => k > 1 /\ pattern[k-1] # "+"

\* the pattern from position k on matches hay from position pos on
RECURSIVE MatchAt(_, _, _, _)
MatchAt(hay, pos, pattern, k) ==
    IF k > Len(pattern) THEN TRUE
    ELSE LET same(p) == p <= Len(hay) /\ LowerChar(hay[p]) = LowerChar(pattern[k])
         IN  IF k < Len(pattern) /\ pattern[k+1] = "+"
             THEN \E n \in 1..(Len(hay) - pos + 1) :
                     /\ \A p \in pos..(pos + n - 1) : same(p)
                     /\ MatchAt(hay, pos + n, pattern, k + 2)
             ELSE same(pos) /\ MatchAt(hay, pos + 1, pattern, k + 1)

\* new RegExp(needle, 'i').test(hay), for a valid needle
Contains(hay, needle) ==
    \E pos \in 1..(Len(hay) + 1) : MatchAt(hay, pos, needle, 1)

\* the names the fallback turns into patterns
skillNamesOf(requirements) ==
    [k \in DOMAIN requirements.skills |-> requirements.skills[k].name]

\* a keyword query that looks at the title and the bio as well
textSearchAnywhere(experts, requirements) ==
    LET skillNames == skillNamesOf(requirements)
        hit(e) == \/ Len(skillNames) = 0
                  \/ \E j \in DOMAIN skillNames :
                        \/ \E k \in DOMAIN e.skills : Contains(e.skills[k].name, skillNames[j])
                        \/ Contains(e.title, skillNames[j])
                        \/ Contains(e.bio, skillNames[j])
    IN  slice(SelectSeq(experts, hit), 10)

\* find({'skills.name': {$in: patterns}}).limit(10) over the collection experts
textSearchIn(experts, requirements) ==
    LET skillNames == skillNamesOf(requirements)
        hit(e) == \/ Len(skillNames) = 0
                  \/ \E k \in DOMAIN e.skills : \E j \in DOMAIN skillNames :
                         Contains(e.skills[k].name, skillNames[j])
    IN  slice(SelectSeq(experts, hit), 10)

textSearch(requirements) == textSearchIn(Experts, requirements)

\* ------------------------------------------------------ generateEmbedding
\* Array(1024).fill(0).map(() => Math.random() * 2 - 1): equal to no stored
\* vector
MockEmbedding == [random |-> TRUE, text |-> <<>>]
\* data.data[0].embedding of the provider's answer for text
providerEmbedding(text) == [random |-> FALSE, text |-> text]

embeddingEntry(text, embedding, createdAt) ==
    [ textHash |-> sha256(text), text |-> slice(text, 500),
      embedding |-> embedding, createdAt |-> createdAt ]

\* an upsert that stores a pseudo-random vector in place of the entry's
upsertMock(coll, entry) ==
    IF \E k \in DOMAIN coll : coll[k].textHash = entry.textHash
    THEN coll
    ELSE Append(coll, [entry EXCEPT !.embedding = MockEmbedding])

\* updateOne({textHash}, {$set: entry}, {upsert: true})
upsertEmbedding(coll, entry) ==
    IF \E k \in DOMAIN coll : coll[k].textHash = entry.textHash
    THEN LET k == CHOOSE k \in DOMAIN coll :
                    /\ coll[k].textHash = entry.textHash
                    /\ \A j \in 1..(k-1) : coll[j].textHash # entry.textHash
         IN  [coll EXCEPT ![k] = entry]
    ELSE Append(coll, entry)

\* what one call of generateEmbedding can do with key set or unset, the
\* collection coll and the clock at: the collection it leaves, the vector it
\* returns, whether it called the provider, whether the provider answered
\* with a vector, the exceptions it swallowed, the entries it found
embeddingOutcome(coll, held, vector, called, answered, swallowed) ==
    [ coll |-> coll, held |-> held, vector |-> vector, called |-> called,
      answered |-> answered, swallowed |-> swallowed ]

\* a generateEmbedding whose stored vectors are good for one hour
generateEmbeddingTTL(key, coll, at, text) ==
    LET held == SelectSeq(coll, LAMBDA e : e.textHash = sha256(text))
        cached == SelectSeq(held, LAMBDA e : e.createdAt + OneHourMs > at)
        embedding == providerEmbedding(text)
    IN  IF ~key
        THEN { embeddingOutcome(coll, held, MockEmbedding, FALSE, FALSE, 0) }
        ELSE { embeddingOutcome(coll, held, MockEmbedding, FALSE, FALSE, 1) }
             \cup
             IF cached # <<>>
             THEN { embeddingOutcome(coll, held, cached[1].embedding, FALSE, FALSE, 0) }
             ELSE { embeddingOutcome(coll, held, MockEmbedding, TRUE, FALSE, 1),
                    embeddingOutcome(coll, held, MockEmbedding, TRUE, TRUE, 1),
                    embeddingOutcome(
                        upsertEmbedding(coll, embeddingEntry(text, embedding, at)),
                        held, embedding, TRUE, TRUE, 0) }

generateEmbedding(key, coll, at, text) ==
    LET cached == SelectSeq(coll, LAMBDA e : e.textHash = sha256(text))
        embedding == providerEmbedding(text)
    IN  IF ~key
        THEN { embeddingOutcome(coll, cached, MockEmbedding, FALSE, FALSE, 0) }
        ELSE \* getDb or findOne throws
             { embeddingOutcome(coll, cached, MockEmbedding, FALSE, FALSE, 1) }
             \cup
             IF cached # <<>>
             THEN { embeddingOutcome(coll, cached, cached[1].embedding, FALSE, FALSE, 0) }
             ELSE { \* the provider fails
                    embeddingOutcome(coll, cached, MockEmbedding, TRUE, FALSE, 1),
                    \* the provider answers and the upsert throws
                    embeddingOutcome(coll, cached, MockEmbedding, TRUE, TRUE, 1),
                    embeddingOutcome(
                        upsertEmbedding(coll, embeddingEntry(text, embedding, at)),
                        cached, embedding, TRUE, TRUE, 0) }

\* ------------------------------------------------------------------ state
VARIABLES
    now,            \* the clock, in milliseconds
    queries,        \* collection queries, in natural order
    tasks,          \* collection agent_tasks, in natural order
    cacheSearch,    \* collection cache_search_results, in natural order
    cacheEmbed,     \* collection cache_embeddings, in natural order
    queryIdUnique,  \* the unique index on queries.queryId exists
    inv,            \* the processQuery invocations: position and locals
    hist,           \* history of each invocation (what it saw and did)
    touched,        \* history: the invocations that wrote each record
    lastWrite,      \* history: the last cache write for each query hash
    faults,         \* history: the exceptions raised by the store and providers
    env,            \* the environment of the behaviour: the query texts users
                    \* submit, the answers of the completion provider to the
                    \* parse prompt, the exceptions it may raise, whether
                    \* VOYAGE_API_KEY is set
    call            \* one call of a stage's function, outside a pipeline run

store == <<queries, tasks, cacheSearch, queryIdUnique>>
vars == <<now, queries, tasks, cacheSearch, cacheEmbed, queryIdUnique, inv, hist,
          touched, lastWrite, faults, env, call>>

Invs == DOMAIN inv

\* the query texts submitted: the first two differ in case and white space only
RawQueries == { <<"r","u","s","t">>,
                <<" ","R","U","S","T">>,
                <<"n","e","e","d"," ","g","o","l","a","n","g">> }


\* a skill name the completion provider may extract
Cpp == <<"C","+","+">>

\* what the completion provider may answer to the parse prompt
ParseChats == { ChatThrows, ChatInvalid,
                ChatJson(JsonObject(
                    JsonArray(<< [name |-> Rust, weight |-> 9],
                                 [name |-> <<"g","o">>, weight |-> 5] >>),
                    JsonArray(<< [type |-> Renown, value |-> <<"P","o","p","u","l","a","r">>] >>),
                    Undefined, Undefined)),
                ChatJson(JsonObject(
                    JsonArray(<< [name |-> Cpp, weight |-> 8] >>),
                    JsonArray(<< [type |-> Renown, value |-> Hidden] >>),
                    Undefined, Undefined)) }

\* what it may answer to the explanation prompt: the text's lines
ExplanationTexts == { << <<"o","k">>, <<" ">>, <<"f","i","t">> >> }

\* the similarity rankings the store may return
Rankings == { << Experts[2], Experts[1] >> }

NoRequirements == [skills |-> <<>>, constraints |-> <<>>,
                   intent |-> Undefined, summary |-> Undefined]

NoCall == [fn |-> "none"]

\* the store and the requests after deployment: empty collections, n
\* requests to come
InitStore(n, e) ==
    /\ env = e
    /\ now = 0
    /\ queries = <<>>
    /\ tasks = <<>>
    /\ cacheSearch = <<>>
    /\ cacheEmbed = <<>>
    /\ queryIdUnique = FALSE
    /\ inv = [i \in 1..n |->
                [ pc |-> "idle", inst |-> 0, rawQuery |-> <<>>,
                  requirements |-> NoRequirements, candidates |-> <<>>,
                  matches |-> <<>>, conversation |-> <<>>,
                  error |-> "", response |-> <<>> ]]
    /\ hist = [i \in 1..n |->
                [ start |-> 0, before |-> {}, path |-> "none",
                  startEntry |-> <<>>, seen |-> <<>>, hitEntry |-> <<>>,
                  lookup |-> 0, chat |-> <<>>, embed |-> <<>>, stages |-> <<>>,
                  swallowed |-> 0, qdoc |-> 0, tdoc |-> 0, wrote |-> <<>>,
                  caught |-> "" ]]
    /\ touched = [queries |-> <<>>, tasks |-> <<>>]
    /\ lastWrite = <<>>
    /\ faults = 0

InitWith(n, e) == InitStore(n, e) /\ call = NoCall

Init ==
    InitWith(MaxInv, [rawQueries |-> RawQueries, parseChats |-> {ChatInvalid},
                      maxFaults |-> MaxFaults, voyageKey |-> TRUE])

\* history: the entry last written for hash h, swept since or not
lastWriteOf(h) == IF h \in DOMAIN lastWrite THEN lastWrite[h] ELSE <<>>

\* ----------------------------------------------------- store primitives
\* index of the first document of coll whose field equals val, or 0
FirstIdx(coll, fld, val) ==
    IF \E k \in DOMAIN coll : coll[k][fld] = val
    THEN CHOOSE k \in DOMAIN coll :
            /\ coll[k][fld] = val
            /\ \A m \in DOMAIN coll : coll[m][fld] = val => k <= m
    ELSE 0

\* updateOne({fld: val}, {$set: sets}) without upsert
updateOne(coll, fld, val, sets) ==
    LET k == FirstIdx(coll, fld, val)
    IN  IF k = 0 THEN coll ELSE [coll EXCEPT ![k] = sets @@ @]

\* updateOne({fld: val}, {$set: sets}, {upsert: true})
upsertOne(coll, fld, val, sets) ==
    IF FirstIdx(coll, fld, val) = 0 THEN Append(coll, sets)
    ELSE updateOne(coll, fld, val, sets)

\* history: invocation i wrote the first record of coll matching val
Touch(marks, coll, fld, val, i) ==
    LET k == FirstIdx(coll, fld, val)
    IN  IF k = 0 THEN marks ELSE [marks EXCEPT ![k] = @ \cup {i}]

\* this.queryId and this.taskId of the OrchestratorAgent instance o
queryIdOf(o) == <<"query", o>>
taskIdOf(o) == <<"task", o>>

\* BaseAgent.log: push one conversation entry on the query record
logEntry(agent, text, args) ==
    [agent |-> agent, message |-> [text |-> text, args |-> args], timestamp |-> now]

\* a log write that puts the entry at the head of the conversation
unshiftLog(coll, queryId, entry) ==
    LET k == FirstIdx(coll, "queryId", queryId)
    IN  IF k = 0 THEN coll
        ELSE [coll EXCEPT ![k].agentConversation = <<entry>> \o @]

\* a log write that sets the conversation to the entry
setLog(coll, queryId, entry) ==
    LET k == FirstIdx(coll, "queryId", queryId)
    IN  IF k = 0 THEN coll
        ELSE [coll EXCEPT ![k].agentConversation = <<entry>>]

pushLog(coll, queryId, entry) ==
    LET k == FirstIdx(coll, "queryId", queryId)
    IN  IF k = 0 THEN coll
        ELSE [coll EXCEPT ![k].agentConversation = Append(@, entry)]

\* log writes of which only the first is made
pushOneLog(coll, queryId, entries) ==
    IF entries = <<>> THEN coll ELSE pushLog(coll, queryId, Head(entries))

RECURSIVE pushLogs(_, _, _)
pushLogs(coll, queryId, entries) ==
    IF entries = <<>> THEN coll
    ELSE pushLogs(pushLog(coll, queryId, Head(entries)), queryId, Tail(entries))

\* ----------------------------------------------------- OrchestratorAgent
\* history: the step of invocation i met an exception of the store or of a
\* provider (a duplicate key is the store's answer, not an outage)
Faulted(i) ==
    \/ inv[i].pc # "catch" /\ inv'[i].pc = "catch" /\ inv'[i].error \in {"store", "chat"}
    \/ inv[i].pc # "raised" /\ inv'[i].pc = "raised"
          /\ inv'[i].error \in {"getDb", "markFailed"}
          /\ inv'[i].error # inv[i].error
CountFaults(i) ==
    /\ faults' = faults + (hist'[i].swallowed - hist[i].swallowed)
                        + (IF Faulted(i) THEN 1 ELSE 0)
    /\ faults' <= env.maxFaults

Goto(i, pc) == inv' = [inv EXCEPT ![i].pc = pc]
\* an exception e raised inside the try block of processQuery
\* the locals of an invocation that has left the try block are dead
Leave(i, pc, error, response) ==
    inv' = [inv EXCEPT ![i] =
              [ pc |-> pc, inst |-> @.inst, rawQuery |-> @.rawQuery,
                requirements |-> NoRequirements, candidates |-> <<>>,
                matches |-> <<>>, conversation |-> <<>>,
                error |-> error, response |-> response ]]
Throw(i, e) == Leave(i, "catch", e, <<>>)

\* orchestrator.processQuery(rawQuery) on instance o, up to the return of
\* getDb(), which is awaited outside the try block
processQuery(i, o, rawQuery) ==
    /\ inv[i].pc = "idle"
    /\ \A j \in Invs : j < i => inv[j].pc # "idle"
    /\ \E ok \in BOOLEAN :
          inv' = [inv EXCEPT ![i].pc = IF ok THEN "lookup" ELSE "raised",
                             ![i].error = IF ok THEN "" ELSE "getDb",
                             ![i].inst = o, ![i].rawQuery = rawQuery]
    /\ hist' = [hist EXCEPT
          ![i].start = now,
          ![i].before = {j \in Invs : inv[j].pc = "returned"},
          ![i].startEntry = lastWriteOf(queryHashOf(rawQuery))]
    /\ UNCHANGED <<call, cacheEmbed, env, now, store, touched, lastWrite>>
    /\ CountFaults(i)

\* POST /api/search: new OrchestratorAgent(), whose identifiers are fresh,
\* then processQuery(query)
Search(i) == \E q \in env.rawQueries : processQuery(i, i, q)

\* a second processQuery on an OrchestratorAgent used before
SearchAgain(i) ==
    \E q \in env.rawQueries, j \in Invs : j < i /\ processQuery(i, inv[j].inst, q)

cacheHitMarker ==
    [agent |-> "orchestrator",
     message |-> [text |-> "Retrieved optimized results from lightning cache.",
                  args |-> <<>>],
     timestamp |-> now]

\* a lookup that takes an entry whatever its expiry
anyEntries(coll, queryHash) ==
    SelectSeq(coll, LAMBDA d : d.queryHash = queryHash)

\* find({queryHash, expiresAt: {$gt: new Date()}})
liveEntries(coll, queryHash) ==
    SelectSeq(coll, LAMBDA d : d.queryHash = queryHash /\ d.expiresAt > now)

\* a hit that returns the cached payload as it is
storedResponse(cached) == cached.result

\* the response of the hit path
hitResponse(cached) ==
    [ queryId |-> cached.result.queryId,
      matches |-> cached.result.matches,
      conversation |-> <<cacheHitMarker>> \o cached.result.conversation ]

\* a hit path that renews the entry it serves (sliding expiry)
LookupSliding(i) ==
    /\ inv[i].pc = "lookup"
    /\ LET queryHash == queryHashOf(inv[i].rawQuery)
           live == liveEntries(cacheSearch, queryHash)
       IN  \/ /\ Throw(i, "store")
              /\ UNCHANGED <<hist, cacheSearch>>
           \/ /\ live # <<>>
              /\ Leave(i, "returned", "", <<hitResponse(live[1])>>)
              /\ cacheSearch' = updateOne(cacheSearch, "queryHash", queryHash,
                                          [expiresAt |-> now + OneHourMs + 1])
              /\ hist' = [hist EXCEPT ![i].path = "hit", ![i].lookup = now,
                                       ![i].seen = lastWriteOf(queryHash),
                                       ![i].hitEntry = <<live[1]>>]
           \/ /\ live = <<>>
              /\ Goto(i, "insertQuery")
              /\ hist' = [hist EXCEPT ![i].path = "miss", ![i].lookup = now,
                                       ![i].seen = lastWriteOf(queryHash)]
              /\ UNCHANGED cacheSearch
    /\ UNCHANGED <<call, cacheEmbed, env, now, queries, tasks, queryIdUnique, touched, lastWrite>>
    /\ CountFaults(i)

\* a hit path that saves the conversation it returns, marker included, in
\* the entry it serves
LookupMarking(i) ==
    /\ inv[i].pc = "lookup"
    /\ LET queryHash == queryHashOf(inv[i].rawQuery)
           live == liveEntries(cacheSearch, queryHash)
       IN  \/ /\ Throw(i, "store")
              /\ UNCHANGED <<hist, cacheSearch>>
           \/ /\ live # <<>>
              /\ Leave(i, "returned", "", <<hitResponse(live[1])>>)
              /\ cacheSearch' = updateOne(cacheSearch, "queryHash", queryHash,
                                          [result |-> hitResponse(live[1])])
              /\ hist' = [hist EXCEPT ![i].path = "hit", ![i].lookup = now,
                                       ![i].seen = lastWriteOf(queryHash),
                                       ![i].hitEntry = <<live[1]>>]
           \/ /\ live = <<>>
              /\ Goto(i, "insertQuery")
              /\ hist' = [hist EXCEPT ![i].path = "miss", ![i].lookup = now,
                                       ![i].seen = lastWriteOf(queryHash)]
              /\ UNCHANGED cacheSearch
    /\ UNCHANGED <<call, cacheEmbed, env, now, queries, tasks, queryIdUnique,
                   touched, lastWrite>>
    /\ CountFaults(i)

\* findOne({queryHash, expiresAt: {$gt: new Date()}}) and the hit path
Lookup(i) ==
    /\ inv[i].pc = "lookup"
    /\ LET queryHash == queryHashOf(inv[i].rawQuery)
           live == liveEntries(cacheSearch, queryHash)
       IN  \/ /\ Throw(i, "store")
              /\ UNCHANGED hist
           \/ /\ live # <<>>
              /\ Leave(i, "returned", "", <<hitResponse(live[1])>>)
              /\ hist' = [hist EXCEPT ![i].path = "hit", ![i].lookup = now,
                                       ![i].seen = lastWriteOf(queryHash),
                                       ![i].hitEntry = <<live[1]>>]
           \/ /\ live = <<>>
              /\ Goto(i, "insertQuery")
              /\ hist' = [hist EXCEPT ![i].path = "miss", ![i].lookup = now,
                                       ![i].seen = lastWriteOf(queryHash)]
    /\ UNCHANGED <<call, cacheEmbed, env, now, store, touched, lastWrite>>
    /\ CountFaults(i)

\* queries.insertOne({queryId, rawQuery, status: 'processing', ...})
InsertQuery(i) ==
    /\ inv[i].pc = "insertQuery"
    /\ LET queryId == queryIdOf(inv[i].inst)
       IN  \/ /\ Throw(i, "store")
              /\ UNCHANGED <<queries, hist, touched>>
           \/ /\ queryIdUnique /\ FirstIdx(queries, "queryId", queryId) # 0
              /\ Throw(i, "duplicateKey")
              /\ UNCHANGED <<queries, hist, touched>>
           \/ /\ ~(queryIdUnique /\ FirstIdx(queries, "queryId", queryId) # 0)
              /\ queries' = Append(queries,
                    [ queryId |-> queryId, rawQuery |-> inv[i].rawQuery,
                      status |-> "processing", agentConversation |-> <<>>,
                      results |-> <<>>, parsedRequirements |-> <<>> ])
              /\ touched' = [touched EXCEPT !.queries = Append(@, {i})]
              /\ hist' = [hist EXCEPT ![i].qdoc = Len(queries) + 1]
              /\ Goto(i, "insertTask")
    /\ UNCHANGED <<call, cacheEmbed, env, now, tasks, cacheSearch, queryIdUnique, lastWrite>>
    /\ CountFaults(i)

\* agent_tasks.insertOne({taskId, queryId, status: 'in_progress', ...})
InsertTask(i) ==
    /\ inv[i].pc = "insertTask"
    /\ \/ /\ Throw(i, "store")
          /\ UNCHANGED <<tasks, hist, touched>>
       \/ /\ tasks' = Append(tasks,
                [ taskId |-> taskIdOf(inv[i].inst), queryId |-> queryIdOf(inv[i].inst),
                  agents |-> <<"orchestrator", "analyst", "scout", "verifier",
                               "recommender">>,
                  status |-> "in_progress" ])
          /\ touched' = [touched EXCEPT !.tasks = Append(@, {i})]
          /\ hist' = [hist EXCEPT ![i].tdoc = Len(tasks) + 1]
          /\ Goto(i, "analyst")
    /\ UNCHANGED <<call, cacheEmbed, env, now, queries, cacheSearch, queryIdUnique, lastWrite>>
    /\ CountFaults(i)

\* history: stage st of invocation i was entered
Enter(i, st) == [hist EXCEPT ![i].stages = Append(@, st)]

\* the conversation writes of invocation i: entries are pushed in order
Logged(i, entries) ==
    /\ queries' = pushLogs(queries, queryIdOf(inv[i].inst), entries)
    /\ touched' = IF entries = <<>> THEN touched
                  ELSE [touched EXCEPT !.queries =
                           Touch(@, queries, "queryId", queryIdOf(inv[i].inst), i)]

\* QueryAnalystAgent.execute
Analyst(i) ==
    /\ inv[i].pc = "analyst"
    /\ \E chat \in env.parseChats :
         LET requirements == parseQuery(inv[i].rawQuery, chat)
             e1 == logEntry("analyst", "Analyzing query requirements...", <<>>)
             e2 == logEntry("analyst", "Extracted skills, constraints",
                            <<Len(requirements.skills), Len(requirements.constraints)>>)
         IN  \/ /\ Logged(i, <<>>) /\ Throw(i, "store")
                /\ hist' = Enter(i, "analyst")
             \/ /\ Logged(i, <<e1>>) /\ Throw(i, "store")
                /\ hist' = Enter(i, "analyst")
             \/ /\ Logged(i, <<e1, e2>>)
                /\ inv' = [inv EXCEPT ![i].pc = "scout",
                                      ![i].requirements = requirements]
                /\ hist' = [Enter(i, "analyst") EXCEPT
                              ![i].chat = <<chat>>,
                              ![i].swallowed = IF chat.ok THEN @ ELSE @ + 1]
    /\ UNCHANGED <<call, cacheEmbed, env, now, tasks, cacheSearch, queryIdUnique, lastWrite>>
    /\ CountFaults(i)

\* ProfileScoutAgent.execute: generateQueryEmbedding runs before the try
\* block; an exception inside the try block (the renown log, the aggregate,
\* the vector-search log) is swallowed and the text search runs; the patterns
\* of the text search are built outside any guard
Scout(i) ==
    /\ inv[i].pc = "scout"
    /\ LET requirements == inv[i].requirements
           e1 == logEntry("scout", "Searching expert database...", <<>>)
           eF == IF renownFilterApplies(requirements)
                 THEN <<logEntry("scout", "Applying renown filter", <<>>)>> ELSE <<>>
           eV(n) == logEntry("scout", "Found candidates via vector search", <<n>>)
           experts == textSearch(requirements)
           eT == logEntry("scout", "Found candidates via text search", <<Len(experts)>>)
           skillNames == skillNamesOf(requirements)
           \* the embedding call em was made and n exceptions were swallowed
           \* by the try block
           Embedded(em, n) ==
               /\ cacheEmbed' = em.coll
               /\ hist' = [Enter(i, "scout") EXCEPT
                              ![i].swallowed = @ + em.swallowed + n,
                              ![i].embed = <<[held |-> em.held, vector |-> em.vector,
                                              called |-> em.called,
                                              answered |-> em.answered,
                                              failed |-> em.swallowed > 0]>>]
           \* the fallback after the try block left the entries tried
           Fallback(em, tried, n) ==
               /\ Embedded(em, n)
               /\ IF \E k \in DOMAIN skillNames : ~regexValid(skillNames[k])
                  THEN Logged(i, <<e1>> \o tried) /\ Throw(i, "regexp")
                  ELSE \/ Logged(i, <<e1>> \o tried) /\ Throw(i, "store")
                       \/ /\ Logged(i, <<e1>> \o tried \o <<eT>>)
                          /\ inv' = [inv EXCEPT ![i].pc = "verifier",
                                                ![i].candidates = experts]
       IN  \/ /\ Logged(i, <<>>) /\ Throw(i, "store")
              /\ hist' = Enter(i, "scout")
              /\ cacheEmbed' = cacheEmbed
           \/ \E em \in generateEmbedding(env.voyageKey, cacheEmbed, now,
                                          inv[i].rawQuery) :
                \/ \E ranking \in Rankings :
                     LET results == vectorSearch(ranking, requirements)
                     IN  \/ /\ Len(results) > 0
                            /\ Logged(i, <<e1>> \o eF \o <<eV(Len(results))>>)
                            /\ inv' = [inv EXCEPT ![i].pc = "verifier",
                                                  ![i].candidates = results]
                            /\ Embedded(em, 0)
                         \/ /\ Len(results) = 0
                            /\ Fallback(em, eF, 0)
                \/ /\ renownFilterApplies(requirements)
                   /\ Fallback(em, <<>>, 1)
                \/ Fallback(em, eF, 1)
    /\ UNCHANGED <<call, env, now, tasks, cacheSearch, queryIdUnique, lastWrite>>
    /\ CountFaults(i)

\* VerifierAgent.execute
Verifier(i) ==
    /\ inv[i].pc = "verifier"
    /\ hist' = Enter(i, "verifier")
    /\ LET candidates == inv[i].candidates
           verified == verify(candidates)
           availableCount == Len(SelectSeq(verified,
                                 LAMBDA e : e.availability = "available"))
           e1 == logEntry("verifier", "Verifying candidates...", <<Len(candidates)>>)
           e2 == logEntry("verifier", "Verified experts, available",
                          <<Len(verified), availableCount>>)
       IN  \/ Logged(i, <<>>) /\ Throw(i, "store")
           \/ Logged(i, <<e1>>) /\ Throw(i, "store")
           \/ /\ Logged(i, <<e1, e2>>)
              /\ inv' = [inv EXCEPT ![i].pc = "recommender",
                                    ![i].candidates = verified]
    /\ UNCHANGED <<call, cacheEmbed, env, now, tasks, cacheSearch, queryIdUnique, lastWrite>>
    /\ CountFaults(i)

\* RecommenderAgent.execute: generateExplanation is awaited without a guard,
\* so a throwing chat() ends the stage
Recommender(i) ==
    /\ inv[i].pc = "recommender"
    /\ hist' = Enter(i, "recommender")
    /\ LET candidates == inv[i].candidates
           e1 == logEntry("recommender", "Ranking and explaining matches...", <<>>)
           e2(matches) == logEntry("recommender", "Ranked experts, top match",
                              <<Len(matches),
                                IF matches = <<>> THEN <<"n","o","n","e">>
                                ELSE matches[1].expert.name>>)
       IN  \/ Logged(i, <<>>) /\ Throw(i, "store")
           \/ /\ Len(candidates) > 0
              /\ Logged(i, <<e1>>) /\ Throw(i, "chat")
           \/ \E text \in ExplanationTexts :
                LET matches == rankMatches(candidates, inv[i].requirements, text)
                IN  \/ Logged(i, <<e1>>) /\ Throw(i, "store")
                    \/ /\ Logged(i, <<e1, e2(matches)>>)
                       /\ inv' = [inv EXCEPT ![i].pc = "updateQuery",
                                             ![i].matches = matches]
    /\ UNCHANGED <<call, cacheEmbed, env, now, tasks, cacheSearch, queryIdUnique, lastWrite>>
    /\ CountFaults(i)

\* String(m.expert._id), or '' for a profile without _id
idString(expert) == IF expert._id = 0 THEN "" ELSE ToString(expert._id)

\* queries.updateOne({queryId}, {$set: {status: 'completed', ...}})
UpdateQuery(i) ==
    /\ inv[i].pc = "updateQuery"
    /\ LET matchIds == [k \in DOMAIN inv[i].matches |-> idString(inv[i].matches[k].expert)]
           queryId == queryIdOf(inv[i].inst)
       IN  \/ /\ Throw(i, "store")
              /\ UNCHANGED <<queries, touched>>
           \/ /\ queries' = updateOne(queries, "queryId", queryId,
                    [ status |-> "completed",
                      parsedRequirements |-> <<inv[i].requirements>>,
                      results |-> matchIds ])
              /\ touched' = [touched EXCEPT !.queries =
                                Touch(@, queries, "queryId", queryId, i)]
              /\ Goto(i, "updateTask")
    /\ UNCHANGED <<call, cacheEmbed, env, now, tasks, cacheSearch, queryIdUnique, hist, lastWrite>>
    /\ CountFaults(i)

\* agent_tasks.updateOne({taskId}, {$set: {status: 'completed', ...}})
UpdateTask(i) ==
    /\ inv[i].pc = "updateTask"
    /\ LET taskId == taskIdOf(inv[i].inst)
       IN  \/ /\ Throw(i, "store")
              /\ UNCHANGED <<tasks, touched>>
           \/ /\ tasks' = updateOne(tasks, "taskId", taskId, [status |-> "completed"])
              /\ touched' = [touched EXCEPT !.tasks =
                                Touch(@, tasks, "taskId", taskId, i)]
              /\ Goto(i, "readBack")
    /\ UNCHANGED <<call, cacheEmbed, env, now, queries, cacheSearch, queryIdUnique, hist, lastWrite>>
    /\ CountFaults(i)

\* queries.findOne({queryId}) and query?.agentConversation || []
ReadBack(i) ==
    /\ inv[i].pc = "readBack"
    /\ LET k == FirstIdx(queries, "queryId", queryIdOf(inv[i].inst))
       IN  \/ Throw(i, "store")
           \/ inv' = [inv EXCEPT ![i].pc = "cacheWrite",
                                 ![i].conversation =
                                     IF k = 0 THEN <<>> ELSE queries[k].agentConversation]
    /\ UNCHANGED <<call, cacheEmbed, env, now, store, hist, touched, lastWrite>>
    /\ CountFaults(i)

safeMatches(matches) ==
    [k \in DOMAIN matches |->
        [matches[k] EXCEPT !.expert._id = IF @ = 0 THEN "" ELSE ToString(@)]]

finalResult(i) ==
    [ queryId |-> queryIdOf(inv[i].inst),
      matches |-> safeMatches(inv[i].matches),
      conversation |-> inv[i].conversation ]

\* a cache entry that lives for a day
dayEntry(i) ==
    [ queryHash |-> queryHashOf(inv[i].rawQuery),
      originalQuery |-> inv[i].rawQuery,
      result |-> finalResult(i),
      createdAt |-> now,
      expiresAt |-> now + 24 * OneHourMs ]

cacheEntry(i) ==
    [ queryHash |-> queryHashOf(inv[i].rawQuery),
      originalQuery |-> inv[i].rawQuery,
      result |-> finalResult(i),
      createdAt |-> now,
      expiresAt |-> now + OneHourMs ]

\* a cache write that inserts without looking for the hash
insertCache(coll, entry) == Append(coll, entry)

\* cache_search_results.updateOne({queryHash}, {$set: ...}, {upsert: true})
writeCache(coll, entry) == upsertOne(coll, "queryHash", entry.queryHash, entry)

\* a cache write whose entry is stored before its outcome is known
CacheWriteUnsafe(i) ==
    /\ inv[i].pc = "cacheWrite"
    /\ cacheSearch' = writeCache(cacheSearch, cacheEntry(i))
    /\ lastWrite' = [h \in DOMAIN lastWrite \cup {queryHashOf(inv[i].rawQuery)} |->
                        IF h = queryHashOf(inv[i].rawQuery)
                        THEN <<cacheEntry(i)>> ELSE lastWrite[h]]
    /\ \/ /\ Throw(i, "store")
          /\ UNCHANGED hist
       \/ /\ Leave(i, "returned", "", <<finalResult(i)>>)
          /\ hist' = [hist EXCEPT ![i].wrote = <<cacheEntry(i)>>]
    /\ UNCHANGED <<call, cacheEmbed, env, now, queries, tasks, queryIdUnique, touched>>
    /\ CountFaults(i)

CacheWrite(i) ==
    /\ inv[i].pc = "cacheWrite"
    /\ \/ /\ Throw(i, "store")
          /\ UNCHANGED <<cacheSearch, hist, lastWrite>>
       \/ /\ cacheSearch' = writeCache(cacheSearch, cacheEntry(i))
          /\ Leave(i, "returned", "", <<finalResult(i)>>)
          /\ hist' = [hist EXCEPT ![i].wrote = <<cacheEntry(i)>>]
          /\ lastWrite' = [h \in DOMAIN lastWrite \cup {queryHashOf(inv[i].rawQuery)} |->
                              IF h = queryHashOf(inv[i].rawQuery)
                              THEN <<cacheEntry(i)>> ELSE lastWrite[h]]
    /\ UNCHANGED <<call, cacheEmbed, env, now, queries, tasks, queryIdUnique, touched>>
    /\ CountFaults(i)

\* the catch block: queries.updateOne({queryId}, {$set: {status: 'failed'}})
\* and throw error; an exception of the update replaces the one caught
Catch(i) ==
    /\ inv[i].pc = "catch"
    /\ hist' = [hist EXCEPT ![i].caught = inv[i].error]
    /\ LET queryId == queryIdOf(inv[i].inst)
       IN  \/ /\ Leave(i, "raised", "markFailed", <<>>)
              /\ UNCHANGED <<queries, touched>>
           \/ /\ queries' = updateOne(queries, "queryId", queryId, [status |-> "failed"])
              /\ touched' = [touched EXCEPT !.queries =
                                Touch(@, queries, "queryId", queryId, i)]
              /\ Leave(i, "raised", inv[i].error, <<>>)
    /\ UNCHANGED <<call, cacheEmbed, env, now, tasks, cacheSearch, queryIdUnique, lastWrite>>
    /\ CountFaults(i)

\* --------------------------------------------------------- environment
Tick ==
    /\ now < MaxTicks * TickMs
    /\ now' = now + TickMs
    /\ UNCHANGED <<call, cacheEmbed, env, store, inv, hist, touched, lastWrite, faults>>

\* the store's TTL monitor (index expiresAt, expireAfterSeconds 0)
TTLSweep ==
    /\ \E k \in DOMAIN cacheSearch :
          /\ cacheSearch[k].expiresAt <= now
          /\ cacheSearch' = [m \in 1..(Len(cacheSearch) - 1) |->
                                IF m < k THEN cacheSearch[m] ELSE cacheSearch[m + 1]]
    /\ UNCHANGED <<call, cacheEmbed, env, now, queries, tasks, queryIdUnique, inv, hist, touched, lastWrite, faults>>

\* the background index provisioning: createIndex({queryId: 1}, {unique: true})
\* fails, and is logged only, when two records already share a queryId
ensureIndexes ==
    /\ ~queryIdUnique
    /\ \A k, m \in DOMAIN queries : queries[k].queryId = queries[m].queryId => k = m
    /\ queryIdUnique' = TRUE
    /\ UNCHANGED <<call, cacheEmbed, env, now, queries, tasks, cacheSearch, inv, hist, touched, lastWrite, faults>>

\* Between its cache lookup and its cache write an invocation touches only
\* the two records it created under its own fresh identifiers, so these steps
\* commute with every step of another invocation.  The specifications run
\* them without interleaving, and without a clock tick in between; the shared
\* steps (the call, the lookup, the cache write, the clock and the sweep)
\* interleave freely.
Local == {"insertQuery", "insertTask", "analyst", "scout", "verifier",
          "recommender", "updateQuery", "updateTask", "readBack", "catch"}
Busy == \E i \in Invs : inv[i].pc \in Local

Next ==
    \/ ~Busy /\ \E i \in Invs : Search(i)
    \/ ~Busy /\ \E i \in Invs : Lookup(i)
    \/ \E i \in Invs : InsertQuery(i)
    \/ \E i \in Invs : InsertTask(i)
    \/ \E i \in Invs : Analyst(i)
    \/ \E i \in Invs : Scout(i)
    \/ \E i \in Invs : Verifier(i)
    \/ \E i \in Invs : Recommender(i)
    \/ \E i \in Invs : UpdateQuery(i)
    \/ \E i \in Invs : UpdateTask(i)
    \/ \E i \in Invs : ReadBack(i)
    \/ ~Busy /\ \E i \in Invs : CacheWrite(i)
    \/ \E i \in Invs : Catch(i)
    \/ ~Busy /\ Tick
    \/ ~Busy /\ TTLSweep

Spec == Init /\ [][Next]_vars

\* ------------------------------------------------- one invocation, any text
\* query texts of up to MaxWords phrases: two skill names, a stop-word with a
\* white-space prefix, a short token
Words == { <<"R","u","s","t"," ","j","a","v","a">>, <<" ","F","i","n","d">>,
           <<"g","o">> }

RECURSIVE Join(_)
Join(ws) ==
    IF Len(ws) = 0 THEN <<>>
    ELSE IF Len(ws) = 1 THEN ws[1]
    ELSE ws[1] \o <<" ">> \o Join(Tail(ws))

SoloQueries == { Join(ws) : ws \in UNION { [1..n -> Words] : n \in 1..MaxWords } }

InitSolo ==
    InitWith(1, [rawQueries |-> SoloQueries, parseChats |-> ParseChats,
                 maxFaults |-> SoloFaults, voyageKey |-> TRUE])

SpecSolo == InitSolo /\ [][Next]_vars

\* one request whose awaited calls all return or raise: a step of the
\* invocation that can be taken is taken
Step(i) ==
    \/ Lookup(i) \/ InsertQuery(i) \/ InsertTask(i)
    \/ Analyst(i) \/ Scout(i) \/ Verifier(i) \/ Recommender(i)
    \/ UpdateQuery(i) \/ UpdateTask(i) \/ ReadBack(i) \/ CacheWrite(i)
    \/ Catch(i)

SpecSoloLive == InitSolo /\ [][Next]_vars /\ \A i \in 1..1 : WF_vars(Step(i))

\* ------------------------------- one query asked again, healthy environment
SameQueries == { q \in RawQueries : queryHashOf(q) = queryHashOf(<<"r","u","s","t">>) }

InitRepeat ==
    InitWith(MaxRepeat, [rawQueries |-> SameQueries, parseChats |-> {ChatInvalid},
                         maxFaults |-> 0, voyageKey |-> TRUE])

NextRepeat ==
    \/ ~Busy /\ \E i \in Invs : Search(i)
    \/ ~Busy /\ \E i \in Invs : Lookup(i)
    \/ \E i \in Invs : InsertQuery(i)
    \/ \E i \in Invs : InsertTask(i)
    \/ \E i \in Invs : Analyst(i)
    \/ \E i \in Invs : Scout(i)
    \/ \E i \in Invs : Verifier(i)
    \/ \E i \in Invs : Recommender(i)
    \/ \E i \in Invs : UpdateQuery(i)
    \/ \E i \in Invs : UpdateTask(i)
    \/ \E i \in Invs : ReadBack(i)
    \/ ~Busy /\ \E i \in Invs : CacheWrite(i)
    \/ ~Busy /\ Tick
    \/ ~Busy /\ TTLSweep

SpecRepeat == InitRepeat /\ [][NextRepeat]_vars

\* ------------------------- callers that keep an OrchestratorAgent for reuse
InitReuse ==
    InitWith(MaxInv, [rawQueries |-> RawQueries, parseChats |-> {ChatInvalid},
                      maxFaults |-> MaxFaults, voyageKey |-> FALSE])

NextReuse ==
    \/ ~Busy /\ \E i \in Invs : Search(i)
    \/ ~Busy /\ \E i \in Invs : SearchAgain(i)
    \/ ~Busy /\ \E i \in Invs : Lookup(i)
    \/ \E i \in Invs : InsertQuery(i)
    \/ \E i \in Invs : InsertTask(i)
    \/ \E i \in Invs : Analyst(i)
    \/ \E i \in Invs : Scout(i)
    \/ \E i \in Invs : Verifier(i)
    \/ \E i \in Invs : Recommender(i)
    \/ \E i \in Invs : UpdateQuery(i)
    \/ \E i \in Invs : UpdateTask(i)
    \/ \E i \in Invs : ReadBack(i)
    \/ ~Busy /\ \E i \in Invs : CacheWrite(i)
    \/ \E i \in Invs : Catch(i)
    \/ ~Busy /\ ensureIndexes

SpecReuse == InitReuse /\ [][NextReuse]_vars

\* ------------------------------- time passes while requests are in progress
\* the clock advances between any two awaited calls of an invocation
InitClock ==
    InitWith(MaxInv, [rawQueries |-> SameQueries, parseChats |-> {ChatInvalid},
                      maxFaults |-> 0, voyageKey |-> TRUE])

NextClock ==
    \/ ~Busy /\ \E i \in Invs : Search(i)
    \/ \E i \in Invs : Lookup(i)
    \/ \E i \in Invs : InsertQuery(i)
    \/ \E i \in Invs : InsertTask(i)
    \/ \E i \in Invs : Analyst(i)
    \/ \E i \in Invs : Scout(i)
    \/ \E i \in Invs : Verifier(i)
    \/ \E i \in Invs : Recommender(i)
    \/ \E i \in Invs : UpdateQuery(i)
    \/ \E i \in Invs : UpdateTask(i)
    \/ \E i \in Invs : ReadBack(i)
    \/ \E i \in Invs : CacheWrite(i)
    \/ Tick

SpecClock == InitClock /\ [][NextClock]_vars

\* ------------------------------------ one call of one stage's function
\* the state of the pipeline, which a single call leaves alone
pipeline == <<now, queries, tasks, cacheSearch, cacheEmbed, queryIdUnique, inv,
              hist, touched, lastWrite, faults, env>>

MaxCandidates == 6
MaxExperts == 14

Renowns == {"famous", "established", "rising", "hidden", "none"}

\* a document of the experts collection
Profile(id, title, bio, skills, availability, renownLevel) ==
    [ _id |-> id, name |-> <<"P","a","t">>, title |-> title, bio |-> bio,
      skills |-> skills, hasLinks |-> id % 2 = 0, availability |-> availability,
      renownLevel |-> renownLevel, hasVector |-> TRUE ]

Dev == <<"d","e","v">>
RustLead == <<"R","u","s","t"," ","l","e","a","d">>
Trust == <<"T","r","u","s","t">>
Rustacean == <<"r","u","s","t","a","c","e","a","n">>

SkillSets == { <<>>, << [name |-> Rust] >>, << [name |-> Rust], [name |-> Golang] >> }

\* the profiles a score is computed for
ScoreProfiles ==
    { Profile(1, Dev, <<>>, sk, av, rl) :
        sk \in SkillSets, av \in {"available", "busy"}, rl \in Renowns }

\* the candidates handed to the recommender: 1, 2 and 5 score alike
RankPool == <<
    Profile(1, Dev, <<>>, << [name |-> Rust] >>, "busy", "famous"),
    Profile(2, Dev, <<>>, << [name |-> Rust] >>, "busy", "famous"),
    Profile(3, Dev, <<>>, << [name |-> Rust], [name |-> Golang] >>, "available", "hidden"),
    Profile(4, Dev, <<>>, <<>>, "busy", "none"),
    Profile(5, Dev, <<>>, << [name |-> Rust] >>, "busy", "famous"),
    Profile(6, Dev, <<>>, << [name |-> Rust], [name |-> Golang] >>, "available", "rising") >>

\* lists of distinct candidates
CandidateLists ==
    { [k \in DOMAIN ks |-> RankPool[ks[k]]] :
        ks \in { s \in UNION { [1..n -> DOMAIN RankPool] : n \in 0..MaxCandidates } :
                   \A a, b \in DOMAIN s : a # b => s[a] # s[b] } }

\* the experts collection the keyword query runs on: profile k of six kinds,
\* some with the word only in the title or the bio
SearchPool ==
    [ k \in 1..MaxExperts |->
        CASE k % 6 = 0 -> Profile(k, Dev, <<>>, << [name |-> Rust] >>, "busy", "famous")
          [] k % 6 = 1 -> Profile(k, RustLead, <<>>, << [name |-> Golang] >>, "busy", "none")
          [] k % 6 = 2 -> Profile(k, Dev, <<>>, << [name |-> Trust] >>, "available", "hidden")
          [] k % 6 = 3 -> Profile(k, Dev, Rustacean, << [name |-> Rust], [name |-> Golang] >>,
                                  "available", "rising")
          [] k % 6 = 4 -> Profile(k, Dev, <<>>, << [name |-> Golang] >>, "busy", "established")
          [] OTHER     -> Profile(k, Dev, Rustacean, <<>>, "available", "none") ]

Collections ==
    { SubSeq(SearchPool, a, b) : a \in 1..(MaxExperts + 1), b \in 0..MaxExperts }

\* answers of the completion provider to the parse prompt whose elements
\* have the expected properties: weights are tenths, of any size and sign
TypedChats ==
    { ChatThrows, ChatInvalid,
      ChatJson(JsonObject(
          JsonArray(<< [name |-> Rust, weight |-> 9],
                       [name |-> <<"g","o">>, weight |-> 5] >>),
          JsonArray(<< [type |-> Renown, value |-> <<"P","o","p","u","l","a","r">>] >>),
          Undefined, Undefined)),
      ChatJson(JsonObject(
          JsonArray(<< [name |-> Rust, weight |-> -10],
                       [name |-> Golang, weight |-> 20] >>),
          JsonArray(<< [type |-> Renown, value |-> Hidden] >>),
          Undefined, Undefined)),
      ChatJson(JsonObject(
          JsonArray(<< >>),
          JsonArray(<< [type |-> Renown, value |-> <<"r","i","s","i","n","g">>] >>),
          Undefined, Undefined)),
      ChatJson(JsonObject(
          JsonArray(<< [name |-> Rust, weight |-> 0] >>),
          Undefined, Undefined, Undefined)),
      ChatJson(JsonObject(
          JsonArray(<< [name |-> Golang, weight |-> 30] >>),
          JsonArray(<< [type |-> <<"l","o","c","a","t","i","o","n">>,
                        value |-> <<"n","y","c">>],
                       [type |-> Renown, value |-> <<"H","I","D","D","E","N">>] >>),
          Undefined, Undefined)) }

\* answers whose elements lack a property, or name a skill that is no pattern
UntypedChats ==
    { ChatJson(JsonObject(
          JsonArray(<< [name |-> Rust] >>),
          JsonArray(<< [type |-> Renown] >>),
          Undefined, Undefined)) }

PatternChats ==
    { ChatJson(JsonObject(
          JsonArray(<< [name |-> Cpp, weight |-> 8] >>),
          JsonArray(<< >>), Undefined, Undefined)) }

CallQueries == { <<"r","u","s","t">>, <<"n","e","e","d"," ","g","o","l","a","n","g">> }

\* the requirement sets the Analyst hands on
TypedRequirements == { parseQuery(q, chat) : q \in CallQueries, chat \in TypedChats }
SearchRequirements ==
    TypedRequirements \cup { parseQuery(q, chat) : q \in CallQueries, chat \in PatternChats }

\* the arguments of the calls
CallArgs ==
    { [for |-> "matchScore", expert |-> e, requirements |-> r] :
         e \in ScoreProfiles, r \in TypedRequirements }
    \cup { [for |-> "renownMatch", expert |-> e, requirements |-> r] :
         e \in ScoreProfiles, r \in TypedRequirements }
    \cup { [for |-> "rank", candidates |-> c, requirements |-> r, text |-> t] :
         c \in CandidateLists, r \in TypedRequirements, t \in ExplanationTexts }
    \cup { [for |-> "verify", candidates |-> c] : c \in Collections }
    \cup { [for |-> "parseQuery", rawQuery |-> q, chat |-> chat] :
         q \in CallQueries, chat \in TypedChats \cup UntypedChats \cup PatternChats }
    \cup { [for |-> "textSearch", experts |-> c, requirements |-> r] :
         c \in Collections, r \in SearchRequirements }

InitCalls ==
    /\ InitStore(1, [rawQueries |-> CallQueries, parseChats |-> TypedChats,
                     maxFaults |-> 0, voyageKey |-> TRUE])
    /\ \E a \in CallArgs : call = [fn |-> "none", args |-> a]

\* the call returned result, or raised
Called(fn, raised, result) ==
    /\ call.fn = "none" /\ call.args.for = fn
    /\ call' = [fn |-> fn, args |-> call.args, raised |-> raised, result |-> result]
    /\ UNCHANGED pipeline

\* RecommenderAgent.execute's score of one candidate
CallMatchScore ==
    Called("matchScore", FALSE, matchScoreOf(call.args.expert, call.args.requirements))

CallRenownMatch ==
    Called("renownMatch", FALSE,
           calculateRenownMatch(call.args.expert, call.args.requirements))

\* RecommenderAgent.execute with a completion provider that answers
CallRank ==
    Called("rank", FALSE,
           rankMatches(call.args.candidates, call.args.requirements, call.args.text))

\* VerifierAgent.execute
CallVerify == Called("verify", FALSE, verify(call.args.candidates))

\* parseQuery
CallParseQuery ==
    Called("parseQuery", FALSE, parseQuery(call.args.rawQuery, call.args.chat))

\* the fallback of ProfileScoutAgent.execute with a store that answers
CallTextSearch ==
    /\ call.args.for = "textSearch"
    /\ LET skillNames == skillNamesOf(call.args.requirements)
       IN  IF \E k \in DOMAIN skillNames : ~regexValid(skillNames[k])
           THEN Called("textSearch", TRUE, <<>>)
           ELSE Called("textSearch", FALSE,
                       textSearchIn(call.args.experts, call.args.requirements))

NextCalls ==
    \/ CallMatchScore
    \/ CallRenownMatch
    \/ CallRank
    \/ CallVerify
    \/ CallParseQuery
    \/ CallTextSearch

SpecCalls == InitCalls /\ [][NextCalls]_vars

\* --------------------------------------- the first calls of getDb, mongodb.ts
\* the callers that are in flight when the process is cold
MaxCallers == 3

\* module state of mongodb.ts (cachedClient, cachedDb: 0 for null), the
\* MongoClient objects created and connected, the position of each caller of
\* connectToDatabase, and the runs of ensureIndexes started
InitConnect ==
    /\ InitStore(1, [rawQueries |-> RawQueries, parseChats |-> {ChatInvalid},
                     maxFaults |-> 0, voyageKey |-> TRUE])
    /\ call = [ fn |-> "connectToDatabase",
                cachedClient |-> 0, cachedDb |-> 0,
                created |-> 0, connected |-> {},
                caller |-> [c \in 1..MaxCallers |-> [pc |-> "idle", client |-> 0]],
                indexRuns |-> <<>> ]

untouched == <<now, queries, tasks, cacheSearch, cacheEmbed, inv, hist, touched,
          lastWrite, faults, env>>

\* connectToDatabase up to its first await: the cached pair is returned, or
\* a MongoClient is created and connect() is awaited
ConnectEnter(c) ==
    /\ call.caller[c].pc = "idle"
    /\ IF call.cachedClient # 0 /\ call.cachedDb # 0
       THEN call' = [call EXCEPT !.caller[c] = [pc |-> "returned",
                                                client |-> call.cachedClient]]
       ELSE call' = [call EXCEPT !.created = @ + 1,
                                 !.caller[c] = [pc |-> "connecting", client |-> call.created + 1]]
    /\ UNCHANGED <<untouched, queryIdUnique>>

\* client.connect() settles: it rejects, or the caller caches its client and
\* awaits the import of index-setup
ConnectSettle(c) ==
    /\ call.caller[c].pc = "connecting"
    /\ \/ call' = [call EXCEPT !.caller[c].pc = "raised"]
       \/ call' = [call EXCEPT !.connected = @ \cup {call.caller[c].client},
                                !.cachedClient = call.caller[c].client,
                                !.cachedDb = call.caller[c].client,
                                !.caller[c].pc = "importing"]
    /\ UNCHANGED <<untouched, queryIdUnique>>

\* the import resolves: ensureIndexes() is started, not awaited, and the
\* caller's own client is returned
ConnectReturn(c) ==
    /\ call.caller[c].pc = "importing"
    /\ call' = [call EXCEPT !.indexRuns = Append(@, "getDb"),
                            !.caller[c].pc = "returned"]
    /\ UNCHANGED <<untouched, queryIdUnique>>

\* a run of ensureIndexes: getDb() finds the cached pair, then the indexes
\* are created
IndexSetup(r) ==
    /\ r \in DOMAIN call.indexRuns
    /\ \/ /\ call.indexRuns[r] = "getDb"
          /\ call' = [call EXCEPT !.indexRuns[r] = "createIndex"]
          /\ UNCHANGED queryIdUnique
       \/ /\ call.indexRuns[r] = "createIndex"
          /\ call' = [call EXCEPT !.indexRuns[r] = "done"]
          /\ queryIdUnique' = TRUE
    /\ UNCHANGED untouched

NextConnect ==
    \/ \E c \in 1..MaxCallers : ConnectEnter(c)
    \/ \E c \in 1..MaxCallers : ConnectSettle(c)
    \/ \E c \in 1..MaxCallers : ConnectReturn(c)
    \/ \E r \in 1..MaxCallers : IndexSetup(r)

SpecConnect == InitConnect /\ [][NextConnect]_vars

\* ================================================================= claims
AllStages == <<"analyst", "scout", "verifier", "recommender">>
Returned(i) == inv[i].pc = "returned"
Raised(i) == inv[i].pc = "raised"
SameText(i, j) ==
    toLowerCase(trim(inv[i].rawQuery)) = toLowerCase(trim(inv[j].rawQuery))
IsCacheHitMarker(entry) ==
    /\ entry.agent = "orchestrator"
    /\ entry.message = cacheHitMarker.message

\* C1: a failing explanation call is absorbed by the recommender: no
\* invocation catches, or raises to its caller, the exception of
\* generateExplanation.
C1_ExplanationFailureAbsorbed ==
    \A i \in Invs : inv[i].error # "chat" /\ hist[i].caught # "chat"

\* C2 as stated: when invocation i returned, and invocation j on the same
\* normalized text started after that and before the expiry of the cached
\* entry, j returns the matches i returned and i's conversation preceded by
\* a cache-hit marker.
C2_StartedInWindowReturnsFirst ==
    \A i, j \in Invs :
        ( /\ i # j /\ Returned(i) /\ Returned(j) /\ SameText(i, j)
          /\ i \in hist[j].before
          /\ hist[j].startEntry # <<>>
          /\ hist[j].start < hist[j].startEntry[1].expiresAt )
        => /\ inv[j].response[1].matches = inv[i].response[1].matches
           /\ IsCacheHitMarker(Head(inv[j].response[1].conversation))
           /\ Tail(inv[j].response[1].conversation) = inv[i].response[1].conversation

\* C2 amended: when invocation i ran the stages and returned, and the cache
\* lookup of invocation j on the same normalized text happens after that,
\* before the expiry of the entry i wrote and before any other invocation
\* rewrites that entry, j hits the cache and returns the matches i returned
\* and i's conversation preceded by a cache-hit marker.
C2_LookupInWindowReturnsFirst ==
    \A i, j \in Invs :
        ( /\ i # j /\ Returned(i) /\ hist[i].path = "miss" /\ SameText(i, j)
          /\ i \in hist[j].before
          /\ hist[j].path # "none"
          /\ hist[j].seen = hist[i].wrote
          /\ hist[j].lookup < hist[i].wrote[1].expiresAt )
        => /\ hist[j].path = "hit" /\ Returned(j)
           /\ inv[j].response[1].queryId = inv[i].response[1].queryId
           /\ inv[j].response[1].matches = inv[i].response[1].matches
           /\ IsCacheHitMarker(Head(inv[j].response[1].conversation))
           /\ Tail(inv[j].response[1].conversation) = inv[i].response[1].conversation

C2_Witness ==
    \E i, j \in Invs :
        /\ i # j /\ Returned(i) /\ hist[i].path = "miss" /\ SameText(i, j)
        /\ inv[i].rawQuery # inv[j].rawQuery
        /\ i \in hist[j].before
        /\ hist[j].path = "hit" /\ hist[j].seen = hist[i].wrote
        /\ hist[j].lookup > hist[i].wrote[1].createdAt
        /\ Len(inv[j].response[1].matches) > 0

\* invocation j started at or after the expiry of the entry last written for
\* its hash
StartedExpired(j) ==
    /\ inv[j].pc # "idle"
    /\ hist[j].startEntry # <<>>
    /\ hist[j].start >= hist[j].startEntry[1].expiresAt

RanInFull(j) ==
    /\ hist[j].path = "miss" /\ hist[j].qdoc # 0
    /\ hist[j].stages = AllStages
    /\ hist[j].wrote # <<>>
    /\ hist[j].wrote[1].expiresAt = hist[j].wrote[1].createdAt + OneHourMs
    /\ hist[j].wrote[1].createdAt >= hist[j].lookup

\* C3 as stated: an invocation that starts at or after the expiry of the
\* entry for its hash never returns that entry; when it returns it has
\* created a Query Record, run the four stages and rewritten the entry with
\* an expiry one hour after the write.
C3_ExpiredEntryForcesFullRun ==
    \A j \in Invs : StartedExpired(j) =>
        /\ hist[j].path = "hit" => hist[j].hitEntry # hist[j].startEntry
        /\ Returned(j) => RanInFull(j)

\* C3 amended: such an invocation never returns the expired entry; when no
\* other invocation has rewritten the entry by the time of its lookup and it
\* returns, it has created a Query Record, run the four stages and rewritten
\* the entry with an expiry one hour after the write.
C3_ExpiredEntryNeverServed ==
    \A j \in Invs : StartedExpired(j) =>
        /\ hist[j].path = "hit" =>
              /\ hist[j].hitEntry # hist[j].startEntry
              /\ hist[j].hitEntry[1].expiresAt > hist[j].lookup
        /\ (Returned(j) /\ hist[j].seen = hist[j].startEntry) => RanInFull(j)

C3_Witness ==
    \E j \in Invs :
        /\ StartedExpired(j) /\ Returned(j) /\ RanInFull(j)
        /\ hist[j].seen = hist[j].startEntry
        /\ cacheSearch = hist[j].wrote
        /\ hist[j].wrote[1].result.queryId # hist[j].startEntry[1].result.queryId

\* C4: once its Query Record exists, an invocation that raises leaves the
\* record with status failed and raises the exception it caught.
C4_FailureMarksFailedAndRethrows ==
    \A i \in Invs : (Raised(i) /\ hist[i].qdoc # 0) =>
        /\ queries[hist[i].qdoc].status = "failed"
        /\ inv[i].error = hist[i].caught

\* C5: the status of a Query Record changes only from processing, to
\* completed or to failed; a completed or failed record keeps its status.
C5_TerminalStatusIsFinal ==
    [][\A k \in DOMAIN queries :
          queries'[k].status # queries[k].status =>
              /\ queries[k].status = "processing"
              /\ queries'[k].status \in {"completed", "failed"}]_vars

\* C6: an invocation that raises has written nothing to the Result Cache;
\* every entry of the Result Cache is the payload of an invocation that ran
\* the four stages and returned, and its identifier names Query Records of
\* status completed only.
C6_CacheHoldsCompletedRuns ==
    /\ \A i \in Invs : inv[i].pc \in {"catch", "raised"} => hist[i].wrote = <<>>
    /\ \A k \in DOMAIN cacheSearch :
          /\ \E i \in Invs : /\ Returned(i) /\ hist[i].stages = AllStages
                             /\ hist[i].wrote = <<cacheSearch[k]>>
                             /\ inv[i].response = <<cacheSearch[k].result>>
          /\ \E q \in DOMAIN queries :
                queries[q].queryId = cacheSearch[k].result.queryId
          /\ \A q \in DOMAIN queries :
                queries[q].queryId = cacheSearch[k].result.queryId
                    => queries[q].status = "completed"

C6_Witness ==
    \E i, j \in Invs :
        /\ Raised(i) /\ hist[i].stages = AllStages /\ hist[i].caught = "store"
        /\ Returned(j) /\ hist[j].wrote # <<>> /\ SameText(i, j)
        /\ cacheSearch = hist[j].wrote

\* C7: an invocation that hits the Result Cache runs no stage and creates
\* no record, and its hit step leaves the Query Records, the Task Records
\* and the Result Cache as they were.
C7_CacheHitIsReadOnly ==
    /\ [](\A i \in Invs : hist[i].path = "hit" =>
              /\ Returned(i) /\ hist[i].stages = <<>>
              /\ hist[i].qdoc = 0 /\ hist[i].tdoc = 0 /\ hist[i].wrote = <<>>)
    /\ [][\A i \in Invs : (inv[i].pc = "lookup" /\ inv'[i].pc = "returned") =>
              UNCHANGED <<queries, tasks, cacheSearch, cacheEmbed, touched>>]_vars

C7_Witness ==
    \E i \in Invs :
        /\ hist[i].path = "hit" /\ Returned(i)
        /\ Len(queries) = 1 /\ Len(tasks) = 1 /\ Len(cacheSearch) = 1
        /\ hist[i].hitEntry = cacheSearch

\* C8: no two invocations write the same Query Record or Task Record, and
\* no two records carry the same identifier.
C8_RecordsAreInvocationPrivate ==
    /\ \A k \in DOMAIN touched.queries : Cardinality(touched.queries[k]) <= 1
    /\ \A k \in DOMAIN touched.tasks : Cardinality(touched.tasks[k]) <= 1
    /\ \A k, m \in DOMAIN queries : queries[k].queryId = queries[m].queryId => k = m
    /\ \A k, m \in DOMAIN tasks : tasks[k].taskId = tasks[m].taskId => k = m

\* C9: the Result Cache holds at most one entry for a hash; the entry is the
\* whole entry of the cache write that happened last for the hash, which is
\* the payload its invocation returned, and it stays until it expires.
C9_OneWholeEntryPerHash ==
    /\ \A k, m \in DOMAIN cacheSearch :
          cacheSearch[k].queryHash = cacheSearch[m].queryHash => k = m
    /\ \A k \in DOMAIN cacheSearch :
          /\ lastWriteOf(cacheSearch[k].queryHash) = <<cacheSearch[k]>>
          /\ \E i \in Invs : /\ hist[i].wrote = <<cacheSearch[k]>>
                             /\ inv[i].response = <<cacheSearch[k].result>>
    /\ \A h \in DOMAIN lastWrite :
          lastWrite[h][1].expiresAt > now =>
              \E k \in DOMAIN cacheSearch : <<cacheSearch[k]>> = lastWrite[h]

C9_Witness ==
    \E i, j \in Invs :
        /\ i # j /\ SameText(i, j)
        /\ Returned(i) /\ Returned(j)
        /\ hist[i].wrote # <<>> /\ hist[j].wrote # <<>>
        /\ i \notin hist[j].before /\ j \notin hist[i].before
        /\ cacheSearch = hist[j].wrote
        /\ hist[i].wrote # hist[j].wrote

\* the tokens of the raw query the heuristic keeps
keptTokens(rawQuery) ==
    SelectSeq(split(toLowerCase(rawQuery)),
              LAMBDA w : Len(w) > 3 /\ w \notin StopWords)

\* C10: when the completion call fails or answers text that is not JSON,
\* parseQuery returns the heuristic set: the first three kept tokens of the
\* raw query, in order and up to letter case, as skills of weight 0.8, no
\* constraints, and the raw query as summary.
C10_ParseFallsBackToHeuristic ==
    \A i \in Invs :
        ( /\ inv[i].pc = "scout"
          /\ ~hist[i].chat[1].ok \/ ~hist[i].chat[1].json )
        => LET r == inv[i].requirements
               kept == keptTokens(inv[i].rawQuery)
           IN  /\ Len(r.skills) = IF Len(kept) < 3 THEN Len(kept) ELSE 3
               /\ \A k \in DOMAIN r.skills :
                     /\ toLowerCase(r.skills[k].name) = kept[k]
                     /\ r.skills[k].weight = DefaultWeight
               /\ r.constraints = <<>>
               /\ r.summary.s = inv[i].rawQuery

C10_Witness ==
    \E i \in Invs :
        /\ inv[i].pc = "scout" /\ ~hist[i].chat[1].ok
        /\ Len(keptTokens(inv[i].rawQuery)) > 3
        /\ Len(split(toLowerCase(inv[i].rawQuery))) > Len(keptTokens(inv[i].rawQuery))
        /\ Len(inv[i].requirements.skills) = 3
        /\ inv[i].requirements.skills[1].name # inv[i].requirements.skills[2].name

\* C11: ProfileScoutAgent.execute never raises for a reason other than an
\* exception of the store: whenever the similarity search is unavailable,
\* raises or finds nothing, it hands on the keyword result, at most 10 profiles
C11_ScoutFallbackDoesNotRaise ==
    \A i \in Invs :
        /\ (inv[i].pc = "catch" /\ hist[i].stages # <<>>
               /\ hist[i].stages[Len(hist[i].stages)] = "scout")
              => inv[i].error = "store"
        /\ inv[i].pc = "verifier" => Len(inv[i].candidates) <= 10

\* C12: when processQuery returns from the miss path, the Query Record of the
\* invocation is completed and lists the identifiers of the returned matches
\* in their rank order, the Task Record is completed, and the cache entry the
\* invocation wrote for the query's hash holds exactly the returned response
\* and expires one hour after its write.
C12_MissReturnLeavesCompletedRecords ==
    \A i \in Invs :
        (Returned(i) /\ hist[i].path = "miss") =>
            LET response == inv[i].response[1]
                matches == response.matches
            IN  /\ hist[i].qdoc # 0 /\ hist[i].tdoc # 0
                /\ queries[hist[i].qdoc].status = "completed"
                /\ queries[hist[i].qdoc].results =
                       [k \in DOMAIN matches |-> matches[k].expert._id]
                /\ \A k, m \in DOMAIN matches :
                       k < m => ~FLess(matches[k].matchScore, matches[m].matchScore)
                /\ tasks[hist[i].tdoc].status = "completed"
                /\ Len(hist[i].wrote) = 1
                /\ hist[i].wrote[1].queryHash = queryHashOf(inv[i].rawQuery)
                /\ hist[i].wrote[1].result = response
                /\ hist[i].wrote[1].expiresAt = hist[i].wrote[1].createdAt + OneHourMs

\* a miss-path return with two ranked matches, after an earlier invocation
\* of the same text failed
C12_Witness ==
    \E i, j \in Invs :
        /\ i # j /\ Raised(j) /\ SameText(i, j)
        /\ Returned(i) /\ hist[i].path = "miss"
        /\ Len(inv[i].response[1].matches) = 2
        /\ FLess(inv[i].response[1].matches[2].matchScore,
                 inv[i].response[1].matches[1].matchScore)
        /\ cacheSearch = hist[i].wrote

\* C20: whichever retrieval path produced them, the candidates the scout
\* hands on under a renown constraint of value popular are all famous or
\* established, and under a constraint of value hidden all hidden or rising.
C20_RenownFilterOnEveryPath ==
    \A i \in Invs :
        (inv[i].pc = "verifier" /\ renownFilterApplies(inv[i].requirements)) =>
            \A k \in DOMAIN inv[i].candidates :
                inv[i].candidates[k].renownLevel \in RenownFilter(inv[i].requirements)

C13_ScoreWithinUnitInterval ==
    call.fn = "matchScore" =>
        /\ ~FLess(call.result, Frac(0, 1))
        /\ ~FLess(Frac(1, 1), call.result)

RenownTable(requested, classification) ==
    IF requested = Popular
    THEN (IF classification = "famous" THEN 10
          ELSE IF classification = "established" THEN 8
          ELSE IF classification = "rising" THEN 4 ELSE 1)
    ELSE (IF classification = "hidden" THEN 10
          ELSE IF classification = "rising" THEN 7 ELSE 2)

\* C15 as stated: with a renown constraint of value popular or hidden the
\* renown match is the table's value for the candidate's classification, a
\* candidate without classification taking the table's "otherwise" value; with
\* no renown constraint it is 0.5.
C15_RenownTableUnclassifiedOtherwise ==
    call.fn = "renownMatch" =>
        LET found == SelectSeq(call.args.requirements.constraints,
                               LAMBDA c : c.type = Renown)
        IN  IF found = <<>> THEN call.result = Frac(1, 2)
            ELSE toLowerCase(found[1].value) \in {Popular, Hidden} =>
                   call.result =
                     Frac(RenownTable(toLowerCase(found[1].value),
                                      call.args.expert.renownLevel), 10)

\* C15: the renown match follows the table for the value of the first renown
\* constraint, read without regard to letter case, and the candidate's
\* classification, a candidate without classification counting as hidden;
\* it is 0.5 with no renown constraint and with any other requested value.
C15_RenownTableUnclassifiedHidden ==
    call.fn = "renownMatch" =>
        LET found == SelectSeq(call.args.requirements.constraints,
                               LAMBDA c : c.type = Renown)
            classification == IF call.args.expert.renownLevel = "none" THEN "hidden"
                              ELSE call.args.expert.renownLevel
        IN  IF found = <<>> THEN call.result = Frac(1, 2)
            ELSE IF toLowerCase(found[1].value) \in {Popular, Hidden}
                 THEN call.result =
                        Frac(RenownTable(toLowerCase(found[1].value), classification), 10)
                 ELSE call.result = Frac(1, 2)

\* a candidate without classification under a request for hidden talent
C15_Witness ==
    /\ call.fn = "renownMatch"
    /\ call.args.expert.renownLevel = "none"
    /\ \E k \in DOMAIN call.args.requirements.constraints :
          /\ call.args.requirements.constraints[k].type = Renown
          /\ toLowerCase(call.args.requirements.constraints[k].value) = Hidden
          /\ call.args.requirements.constraints[k].value # Hidden
    /\ call.result = Frac(1, 1)

\* the text hay holds the word needle, letter case aside
HasWord(hay, needle) ==
    \E k \in 0..(Len(hay) - Len(needle)) :
        \A p \in 1..Len(needle) : LowerChar(hay[k + p]) = LowerChar(needle[p])

\* the profile mentions one of the names: in a skill name, or, with anywhere,
\* in its title or bio as well
Mentions(e, names, anywhere) ==
    \E j \in DOMAIN names :
        \/ \E k \in DOMAIN e.skills : HasWord(e.skills[k].name, names[j])
        \/ anywhere /\ (HasWord(e.title, names[j]) \/ HasWord(e.bio, names[j]))

\* the keyword call returned the first ten, in the collection's order, of the
\* profiles that mention a requirement skill name, or of all profiles when
\* there is no requirement skill
KeywordResult(anywhere) ==
    LET experts == call.args.experts
        names == skillNamesOf(call.args.requirements)
        hits == {p \in DOMAIN experts :
                    Len(names) = 0 \/ Mentions(experts[p], names, anywhere)}
    IN  /\ Len(call.result) = IF Cardinality(hits) < 10 THEN Cardinality(hits) ELSE 10
        /\ \A m \in DOMAIN call.result :
               \E p \in hits : /\ experts[p] = call.result[m]
                               /\ Cardinality({q \in hits : q <= p}) = m

\* C19 as stated: the keyword fallback returns, up to the cap of 10, the
\* candidates for which a requirement skill name matches, letter case aside,
\* in the candidate's skill names, title or bio, and every candidate up to
\* the cap when there are no requirement skills.
C19_KeywordMatchOnSkillsTitleBio ==
    (call.fn = "textSearch" /\ ~call.raised) => KeywordResult(TRUE)

\* C19: the keyword fallback, when it returns, returns up to the cap of 10
\* the candidates for which a requirement skill name occurs, letter case
\* aside, in one of the candidate's skill names (title and bio are not
\* searched), and every candidate up to the cap when there are no
\* requirement skills.
C19_KeywordMatchOnSkillNames ==
    (call.fn = "textSearch" /\ ~call.raised) => KeywordResult(FALSE)

\* ten candidates returned, and a profile that has the word in its bio only
\* is passed over
C19_Witness ==
    /\ call.fn = "textSearch" /\ ~call.raised
    /\ Len(call.result) = 10
    /\ Len(call.args.requirements.skills) > 0
    /\ \E p, q \in DOMAIN call.args.experts :
          /\ p < q
          /\ HasWord(call.args.experts[p].bio, call.args.requirements.skills[1].name)
          /\ \A m \in DOMAIN call.result : call.result[m] # call.args.experts[p]
          /\ \E m \in DOMAIN call.result : call.result[m] = call.args.experts[q]

\* C16: VerifierAgent.execute returns a list of the length of its input, in
\* the input's order, each element being the input candidate with the
\* verification annotations added and none of its own fields changed.
C16_VerifyOnlyAnnotates ==
    call.fn = "verify" =>
        /\ Len(call.result) = Len(call.args.candidates)
        /\ \A k \in DOMAIN call.args.candidates :
              /\ DOMAIN call.result[k] =
                    DOMAIN call.args.candidates[k] \cup {"verified", "verificationDetails"}
              /\ \A f \in DOMAIN call.args.candidates[k] :
                    call.result[k][f] = call.args.candidates[k][f]
              /\ call.result[k].verified = TRUE
              /\ DOMAIN call.result[k].verificationDetails =
                    {"profileComplete", "hasExternalLinks", "availabilityConfirmed"}

\* several candidates, some unavailable, one with an incomplete profile
C16_Witness ==
    /\ call.fn = "verify"
    /\ Len(call.args.candidates) >= 3
    /\ \E k, m \in DOMAIN call.result :
          /\ k < m
          /\ call.result[k].availability = "busy"
          /\ ~call.result[k].verificationDetails.availabilityConfirmed
          /\ call.result[m].verificationDetails.profileComplete
          /\ ~call.result[k].verificationDetails.profileComplete

\* C18: for every text the completion provider can return, the requirement
\* set parseQuery returns is well-formed: every element of skills has a name
\* and a weight in (0,1] (1 to 10 tenths), every element of constraints has a
\* type and a value.
C18_ParsedRequirementsWellFormed ==
    call.fn = "parseQuery" =>
        /\ \A k \in DOMAIN call.result.skills :
              /\ {"name", "weight"} \subseteq DOMAIN call.result.skills[k]
              /\ call.result.skills[k].weight \in 1..10
        /\ \A k \in DOMAIN call.result.constraints :
              {"type", "value"} \subseteq DOMAIN call.result.constraints[k]

\* C21: whenever processQuery has raised after it created its Query Record
\* and its Task Record, the Task Record has status in_progress and the Query
\* Record has status failed; the failure handler never modifies a Task Record.
C21_FailureLeavesTaskInProgress ==
    /\ [](\A i \in Invs :
            (Raised(i) /\ hist[i].qdoc # 0 /\ hist[i].tdoc # 0) =>
                /\ tasks[hist[i].tdoc].status = "in_progress"
                /\ queries[hist[i].qdoc].status = "failed")
    /\ [][\A i \in Invs : (inv[i].pc = "catch" /\ inv'[i].pc = "raised") =>
              UNCHANGED tasks]_vars

\* C22: provided every awaited call returns or raises, every processQuery
\* invocation that was started ends by returning or raising; it ran no stage
\* twice; and the Query Record it created, if any, is then completed or
\* failed, not processing.
C22_TerminatesWithRecordSettled ==
    /\ [](\A i \in Invs :
            /\ \A a, b \in DOMAIN hist[i].stages :
                  a # b => hist[i].stages[a] # hist[i].stages[b]
            /\ ((Returned(i) \/ Raised(i)) /\ hist[i].qdoc # 0) =>
                  queries[hist[i].qdoc].status \in {"completed", "failed"})
    /\ \A i \in 1..1 : (inv[i].pc # "idle") ~> (Returned(i) \/ Raised(i))

\* the place of a stage in the pipeline
StageRank(agent) ==
    CHOOSE k \in DOMAIN AllStages : AllStages[k] = agent

\* C23: on a cache miss the steps of one invocation occur one after another
\* in this order: the Query Record is created with status processing, the
\* Task Record with status in_progress, then the analyst, the scout, the
\* verifier and the recommender run, each after the one before returned; in
\* the Query Record's conversation the entries of the analyst come first,
\* then the scout's, the verifier's, the recommender's.
C23_StagesRunInPipelineOrder ==
    /\ [](\A i \in Invs :
            /\ hist[i].stages = SubSeq(AllStages, 1, Len(hist[i].stages))
            /\ hist[i].stages # <<>> => hist[i].tdoc # 0
            /\ hist[i].tdoc # 0 => hist[i].qdoc # 0
            /\ hist[i].qdoc # 0 => hist[i].path = "miss"
            /\ inv[i].pc \in {"scout", "verifier", "recommender"} =>
                  hist[i].stages[Len(hist[i].stages)] =
                      AllStages[StageRank(inv[i].pc) - 1]
            /\ hist[i].qdoc # 0 =>
                  LET conversation == queries[hist[i].qdoc].agentConversation
                  IN  /\ \A k \in DOMAIN conversation :
                            conversation[k].agent \in
                                {hist[i].stages[s] : s \in DOMAIN hist[i].stages}
                      /\ \A k, m \in DOMAIN conversation :
                            k < m => StageRank(conversation[k].agent)
                                       <= StageRank(conversation[m].agent))
    /\ [][\A i \in Invs :
            /\ (hist[i].qdoc = 0 /\ hist'[i].qdoc # 0) =>
                  /\ hist'[i].qdoc = Len(queries) + 1 /\ hist[i].tdoc = 0
                  /\ queries'[hist'[i].qdoc].status = "processing"
                  /\ queries'[hist'[i].qdoc].agentConversation = <<>>
            /\ (hist[i].tdoc = 0 /\ hist'[i].tdoc # 0) =>
                  /\ hist'[i].tdoc = Len(tasks) + 1 /\ hist[i].stages = <<>>
                  /\ tasks'[hist'[i].tdoc].status = "in_progress"]_vars

\* two invocations ran all four stages, and the conversation of each holds
\* entries of the four stages
C23_Witness ==
    \E i, j \in Invs :
        /\ i # j /\ Returned(i) /\ Returned(j)
        /\ hist[i].stages = AllStages /\ hist[j].stages = AllStages
        /\ \A s \in DOMAIN AllStages :
              \E k \in DOMAIN queries[hist[j].qdoc].agentConversation :
                  queries[hist[j].qdoc].agentConversation[k].agent = AllStages[s]

\* C24: generateEmbedding returns the pseudo-random vector only when no
\* provider credential is configured or the provider call failed; whenever
\* the provider call succeeded the caller receives the provider's vector.
C24_MockOnlyWithoutProviderAnswer ==
    \A i \in Invs :
        hist[i].embed # <<>> =>
            /\ hist[i].embed[1].vector = MockEmbedding =>
                  \/ ~env.voyageKey
                  \/ hist[i].embed[1].called /\ ~hist[i].embed[1].answered
            /\ hist[i].embed[1].answered =>
                  hist[i].embed[1].vector = providerEmbedding(inv[i].rawQuery)

\* C25: every vector stored in the embedding cache is the provider's vector
\* for a text with the entry's hash; the pseudo-random vector is never
\* stored, whatever provider failures, missing credentials and store
\* failures occurred.
C25_CacheHoldsProviderVectorsOnly ==
    \A k \in DOMAIN cacheEmbed :
        /\ cacheEmbed[k].embedding # MockEmbedding
        /\ \E t \in env.rawQueries :
              /\ cacheEmbed[k].textHash = sha256(t)
              /\ cacheEmbed[k].embedding = providerEmbedding(t)

\* an embedding was stored, and another call came back with the
\* pseudo-random vector after the provider had been called
C25_Witness ==
    /\ cacheEmbed # <<>>
    /\ \E i \in Invs :
          /\ hist[i].embed # <<>>
          /\ hist[i].embed[1].called
          /\ hist[i].embed[1].vector = MockEmbedding

\* the positions of the cache-hit markers in a conversation
MarkersOf(conversation) ==
    { k \in DOMAIN conversation : IsCacheHitMarker(conversation[k]) }

\* C26: the response of a cache hit holds exactly one cache-hit marker, as
\* the first entry of its conversation, however many invocations hit the
\* entry before; no payload stored in the Result Cache holds a marker; a hit
\* leaves the Result Cache, expiry included, as it was.
C26_OneMarkerPerHit ==
    /\ [](/\ \A i \in Invs :
                (hist[i].path = "hit" /\ Returned(i)) =>
                    MarkersOf(inv[i].response[1].conversation) = {1}
           /\ \A k \in DOMAIN cacheSearch :
                MarkersOf(cacheSearch[k].result.conversation) = {})
    /\ [][\A i \in 1..MaxRepeat :
              (inv[i].pc = "lookup" /\ inv'[i].pc = "returned") =>
                  cacheSearch' = cacheSearch]_vars

\* two invocations hit one entry, one after the other
C26_Witness ==
    \E i, j \in Invs :
        /\ i # j /\ i \in hist[j].before
        /\ hist[i].path = "hit" /\ Returned(i)
        /\ hist[j].path = "hit" /\ Returned(j)
        /\ hist[i].hitEntry = hist[j].hitEntry
        /\ hist[j].hitEntry = cacheSearch
        /\ Len(cacheSearch[1].result.conversation) > 0

\* the candidate that differs from expert in not being available: its
\* skillMatch and renownMatch are those of expert
Unavailable(expert) == [expert EXCEPT !.availability = "busy"]

\* a score was computed for an available candidate
ScoredAvailable ==
    /\ call.fn = "matchScore"
    /\ call.args.expert.availability = "available"

\* C27 as stated: of two candidates with the same skillMatch and renownMatch
\* the available one always has the strictly higher score.
C27_AvailableScoresStrictlyHigher ==
    ScoredAvailable =>
        FLess(matchScoreOf(Unavailable(call.args.expert), call.args.requirements),
              call.result)

\* C27 amended: the available one never scores lower, and scores strictly
\* higher exactly when the score of the one not available is below 1.
C27_AvailableScoresHigherBelowOne ==
    ScoredAvailable =>
        LET other == matchScoreOf(Unavailable(call.args.expert), call.args.requirements)
        IN  /\ ~FLess(call.result, other)
            /\ FLess(other, call.result) <=> FLess(other, Frac(1, 1))

\* an available candidate scored 1 where the one not available scores
\* 91/100
C27_Witness ==
    /\ ScoredAvailable
    /\ call.result = Frac(1, 1)
    /\ matchScoreOf(Unavailable(call.args.expert), call.args.requirements)
          = Frac(91, 100)

\* the number of entries of a conversation written by agent
EntriesOf(conversation, agent) ==
    Cardinality({ k \in DOMAIN conversation : conversation[k].agent = agent })

\* invocation i ran the stages and returned
ReturnedMiss(i) == Returned(i) /\ hist[i].path = "miss"

\* C29 as stated: in a successful cache-miss run each of the four stages
\* appends exactly one conversation entry, and the conversation read back
\* has exactly four stage entries.
C29_OneEntryPerStage ==
    \A i \in Invs : ReturnedMiss(i) =>
        LET conversation == inv[i].response[1].conversation
        IN  /\ Len(conversation) = 4
            /\ \A k \in 1..4 : EntriesOf(conversation, AllStages[k]) = 1

\* C29 amended: in a successful cache-miss run the analyst, the verifier and
\* the recommender append exactly two entries each (one on entry, one with
\* the outcome) and the scout two or three (three only when a renown filter
\* applies), so the conversation read back has eight or nine stage entries
\* and no other entry.
C29_TwoEntriesPerStage ==
    \A i \in Invs : ReturnedMiss(i) =>
        LET conversation == inv[i].response[1].conversation
        IN  /\ Len(conversation) \in {8, 9}
            /\ \A s \in {"analyst", "verifier", "recommender"} :
                  EntriesOf(conversation, s) = 2
            /\ EntriesOf(conversation, "scout") = Len(conversation) - 6
            /\ Len(conversation) = 9 =>
                  renownFilterApplies(parseQuery(inv[i].rawQuery, hist[i].chat[1]))

\* a run with a renown filter returned nine entries
C29_Witness ==
    \E i \in Invs :
        /\ ReturnedMiss(i)
        /\ Len(inv[i].response[1].conversation) = 9
        /\ EntriesOf(inv[i].response[1].conversation, "scout") = 3

\* C28: the conversation of a Query Record only grows at its end: no step
\* changes, reorders or removes an entry it holds, and the timestamps of its
\* entries never decrease along the list.
C28_ConversationAppendOnly ==
    /\ [](\A k \in DOMAIN queries :
             \A a, b \in DOMAIN queries[k].agentConversation :
                a < b => queries[k].agentConversation[a].timestamp
                            <= queries[k].agentConversation[b].timestamp)
    /\ [][\A k \in DOMAIN queries :
             /\ k \in DOMAIN queries'
             /\ Len(queries'[k].agentConversation) >= Len(queries[k].agentConversation)
             /\ SubSeq(queries'[k].agentConversation, 1,
                       Len(queries[k].agentConversation))
                   = queries[k].agentConversation]_vars

\* a completed record whose conversation spans two ticks of the clock, next
\* to a record in progress
C28_Witness ==
    \E k, m \in DOMAIN queries :
        /\ queries[k].status = "completed"
        /\ Len(queries[k].agentConversation) = 8
        /\ queries[k].agentConversation[1].timestamp
              < queries[k].agentConversation[4].timestamp
        /\ queries[k].agentConversation[4].timestamp
              < queries[k].agentConversation[8].timestamp
        /\ queries[m].status = "processing"
        /\ queries[m].agentConversation # <<>>

\* C30: however the first calls of getDb/connectToDatabase of one process
\* interleave, at most one store client is created and connected, and
\* ensureIndexes is started at most once.
C30_OneClientOneIndexRun ==
    /\ call.created <= 1
    /\ Cardinality(call.connected) <= 1
    /\ Len(call.indexRuns) <= 1

====
